---- MODULE Spec2Model ----
(***************************************************************************)
(* The brew-history engine of the Fellow Aiden integration                  *)
(* (custom_components/fellow/brew_history.py, BrewHistoryManager) as a      *)
(* state machine: the two logs, the profile tally, the two baselines, the   *)
(* _data_loaded gate, the storage document and the wall clock.              *)
(*                                                                          *)
(* Representation.                                                          *)
(*   - a Python dict with optional keys is a function whose DOMAIN is the   *)
(*     set of keys present; d.get(k, default) is DictGet;                   *)
(*   - profile_usage is an insertion-ordered dict: a sequence of            *)
(*     <<title, count>> pairs;                                              *)
(*   - time is counted in days; an aware datetime is its instant, and the   *)
(*     ISO-8601 text of a datetime is the record [iso |-> instant,          *)
(*     aware |-> TRUE/FALSE]; any other text is [text |-> ...];             *)
(*   - brewStartTime/brewEndTime are strings: sequences of characters;      *)
(*   - litres with two decimals are counted in hundredths of a litre;       *)
(*   - storage holds <<>> (nothing stored) or <<document>>.                 *)
(***************************************************************************)
EXTENDS Integers, Sequences, FiniteSets, TLC

VARIABLES
    brew_history,          \* self._brew_history
    water_usage_history,   \* self._water_usage_history
    profile_usage,         \* self._profile_usage
    last_total_brews,      \* self._last_total_brews
    last_total_water,      \* self._last_total_water
    data_loaded,           \* self._data_loaded
    store,                 \* what self._store holds on disk
    now,                   \* dt_util.now(), in days
    last_call,             \* the last operation, its inputs and its result
    wtrack,                \* bookkeeping: water baseline as last set, water recorded since
    seq,                   \* bookkeeping: a marked run of consecutive updates
    poll,                  \* the coordinator's poll in progress and the requests it sent
    tasks,                 \* the coroutines suspended at an await and the store writes in flight
    coordinator            \* the coordinator's flag, its API client's caches and the worker threads

vars == <<brew_history, water_usage_history, profile_usage, last_total_brews,
          last_total_water, data_loaded, store, now, last_call, wtrack, seq, poll, tasks, coordinator>>

----------------------------------------------------------------------------
(* Bounds and program constants *)

\* largest totalBrewingCycles a snapshot reports
MaxBrews == 2

\* most calls in a marked run of consecutive updates
MaxSeqCalls == 3

\* largest totalBrewingCycles a snapshot reports in the runs that span the retention period
MaxAgingBrews == 1

HISTORY_RETENTION_DAYS == 365

\* the instants (days) at which the clock is read: two polls eight days apart
Instants == {0, 8}

\* the instants of the runs that span the retention period: at 410 a record stamped at
\* 10 is 400 days old and one stamped at 110 is 300 days old; at 40 a record stamped at 10
\* is exactly 30 days old
AgingInstants == {0, 8, 10, 40, 110, 410}

\* totalWaterVolumeL values (millilitres) a snapshot reports
WaterTotals == {0, 5000, 5200}

\* totalWaterVolumeL values in the runs that span the retention period
AgingWaterTotals == {5000, 5200, 5300}

\* period lengths (days) the sensors and the debug service ask for
Periods == {1, 7, 30}

----------------------------------------------------------------------------
(* Python values *)

DictGet(d, k, default) == IF k \in DOMAIN d THEN d[k] ELSE default

EmptyDict == <<>>

\* ordered dict: k in d
OHas(d, k) == \E i \in 1..Len(d) : d[i][1] = k

\* ordered dict: d[k] += 1, the key keeping its place
OIncr(d, k) == [i \in 1..Len(d) |-> IF d[i][1] = k THEN <<k, d[i][2] + 1>> ELSE d[i]]

\* ordered dict: d[k] = v for a new key, which goes last
OInsert(d, k, v) == Append(d, <<k, v>>)

Digits == [c \in {"0", "1", "2", "3", "4", "5", "6", "7", "8", "9"} |->
             CASE c = "0" -> 0 [] c = "1" -> 1 [] c = "2" -> 2 [] c = "3" -> 3
               [] c = "4" -> 4 [] c = "5" -> 5 [] c = "6" -> 6 [] c = "7" -> 7
               [] c = "8" -> 8 [] c = "9" -> 9]

RECURSIVE DigitsValue(_)
DigitsValue(s) ==
    IF Len(s) = 0 THEN 0
    ELSE 10 * DigitsValue(SubSeq(s, 1, Len(s) - 1)) + Digits[s[Len(s)]]

\* a decimal numeral without its leading zeros
RECURSIVE StripZeros(_)
StripZeros(s) ==
    IF Len(s) > 1 /\ s[1] = "0" THEN StripZeros(Tail(s)) ELSE s

\* int(s) of a string: <<n>>, or <<>> for ValueError.  Python's int has no width:
\* n is kept as a decimal numeral, digit by digit
ParseInt(s) ==
    IF Len(s) > 0 /\ \A i \in 1..Len(s) : s[i] \in DOMAIN Digits
    THEN <<StripZeros(s)>>
    ELSE <<>>

\* a < b for two ints kept as numerals
IntLess(a, b) ==
    \/ Len(a) < Len(b)
    \/ /\ Len(a) = Len(b)
       /\ \E i \in 1..Len(a) :
            /\ \A j \in 1..(i - 1) : a[j] = b[j]
            /\ Digits[a[i]] < Digits[b[i]]

\* n > 0 for an int kept as a numeral
IntPositive(n) == n # <<"0">>

\* 253402300799, the timestamp of datetime.max (9999-12-31T23:59:59)
DATETIME_MAX == <<"2", "5", "3", "4", "0", "2", "3", "0", "0", "7", "9", "9">>

\* dt_util.utc_from_timestamp(ts): <<datetime>>, or <<>> for the ValueError
\* "year ... is out of range"
utc_from_timestamp(ts) ==
    IF IntLess(DATETIME_MAX, ts) THEN <<>> ELSE <<[epoch |-> DigitsValue(ts)]>>

\* now.isoformat() of an aware local datetime
IsoFormat(t) == [iso |-> t, aware |-> TRUE]

\* datetime.fromisoformat(s), a naive result read as local time: <<instant>>, or <<>> for ValueError
FromIsoFormat(s) == IF "iso" \in DOMAIN s THEN <<s.iso>> ELSE <<>>

EmptyStr == [text |-> ""]

\* round(ml / 1000.0, 2), in hundredths of a litre (no amount of the model ends in 5 ml)
RoundLitres(ml) == (ml + 5) \div 10


----------------------------------------------------------------------------
(* Inputs: snapshots *)

Str0   == <<"0">>
Str100 == <<"1", "0", "0">>
Str160 == <<"1", "6", "0">>
Str220 == <<"2", "2", "0">>
\* a time of day in 2023 in milliseconds, and the same a minute later
StrMs  == <<"1", "7", "0", "0", "0", "0", "0", "0", "0", "0", "0", "0", "0">>
StrMsLater == <<"1", "7", "0", "0", "0", "0", "0", "0", "6", "0", "0", "0", "0">>
StrAbc == <<"a", "b", "c">>

\* (brewStartTime, brewEndTime) of a snapshot; <<>> is a field that is absent
TimingPairs ==
    { <<<<>>, <<>>>>, <<Str100, Str160>>, <<Str160, Str100>>,
      <<Str0, Str160>>, <<StrAbc, Str160>>, <<Str100, <<>>>>,
      <<Str100, Str100>>, <<Str100, Str220>>, <<StrMs, StrMsLater>>, <<Str100, StrMs>> }

ProfileLight == [id |-> "p0", title |-> "Light", isDefaultProfile |-> FALSE]
ProfileBold  == [id |-> "p1", title |-> "Bold", isDefaultProfile |-> TRUE]
ProfileBare  == [id |-> "p2"]

\* the profile lists a poll hands over
ProfileLists == { <<>>, <<ProfileLight, ProfileBold>>, <<ProfileBare>> }

NoTiming == << <<>>, <<>> >>

\* the counters of a device_config; one config lacks both keys
CounterConfigs ==
    { [totalBrewingCycles |-> b, totalWaterVolumeL |-> w] : b \in 0..MaxBrews, w \in WaterTotals }
    \cup { [brewerName |-> "Aiden"] }

WithTiming(cfg, tp) ==
    cfg @@ (IF tp[1] = <<>> THEN EmptyDict ELSE [brewStartTime |-> tp[1]])
        @@ (IF tp[2] = <<>> THEN EmptyDict ELSE [brewEndTime |-> tp[2]])

\* the counters of a device_config in the runs that span the retention period
AgingConfigs ==
    { [totalBrewingCycles |-> b, totalWaterVolumeL |-> w] : b \in 0..MaxAgingBrews, w \in AgingWaterTotals }

\* the baselines the reset service passes
ResetBaselines == {0, 5000}

----------------------------------------------------------------------------
(* The engine: BrewHistoryManager *)

\* the fields of a BrewHistoryManager as one value
Self ==
    [ brew_history |-> brew_history,
      water_usage_history |-> water_usage_history,
      profile_usage |-> profile_usage,
      last_total_brews |-> last_total_brews,
      last_total_water |-> last_total_water,
      data_loaded |-> data_loaded ]

\* __init__
NewManager ==
    [ brew_history |-> <<>>,
      water_usage_history |-> <<>>,
      profile_usage |-> <<>>,
      last_total_brews |-> 0,
      last_total_water |-> 0,
      data_loaded |-> FALSE ]

\* a stored value that is not of the expected type: JSON null where a list is expected,
\* a JSON list where the document (an object) is expected
PyNone == << [py |-> "None"] >>

PyList == [py |-> "list"]

\* the value has .get: it is a dict
IsDict(data) == "py" \notin DOMAIN data

\* len(value) does not raise: the value is a list of records
HasLen(value) == value = <<>> \/ "py" \notin DOMAIN value[1]

\* the except branch of async_load_history
LoadFailed(self) ==
    [self EXCEPT !.brew_history = <<>>, !.water_usage_history = <<>>,
                 !.profile_usage = <<>>, !.data_loaded = TRUE]

\* a load that restores the logs and the tally and leaves the baselines at 0
async_load_history_NoBaselines(self, st, load_ok) ==
    IF ~load_ok \/ st = <<>> \/ ~IsDict(st[1])
    THEN LoadFailed(self)
    ELSE [ self EXCEPT !.brew_history = DictGet(st[1], "brew_history", <<>>),
                       !.water_usage_history = DictGet(st[1], "water_usage_history", <<>>),
                       !.profile_usage = DictGet(st[1], "profile_usage", <<>>),
                       !.data_loaded = TRUE ]

\* async_load_history; load_ok = FALSE: self._store.async_load() raises.  data.get raises
\* on a document that is no dict before anything is assigned; len() in the arguments of the
\* debug call raises on a log that is no list after all five fields are assigned.
async_load_history(self, st, load_ok) ==
    IF ~load_ok
    THEN LoadFailed(self)
    ELSE IF st = <<>>
    THEN [self EXCEPT !.data_loaded = TRUE]
    ELSE LET data == st[1] IN
         IF ~IsDict(data) THEN LoadFailed(self)
         ELSE LET assigned ==
                    [ brew_history |-> DictGet(data, "brew_history", <<>>),
                      water_usage_history |-> DictGet(data, "water_usage_history", <<>>),
                      profile_usage |-> DictGet(data, "profile_usage", <<>>),
                      last_total_brews |-> DictGet(data, "last_total_brews", 0),
                      last_total_water |-> DictGet(data, "last_total_water", 0),
                      data_loaded |-> self.data_loaded ]
              IN  IF HasLen(assigned.brew_history) /\ HasLen(assigned.water_usage_history)
                  THEN [assigned EXCEPT !.data_loaded = TRUE]
                  ELSE LoadFailed(assigned)

\* a save that does not look at _data_loaded
async_save_history_Ungated(self, st, save_ok, t) ==
    IF ~save_ok THEN st
    ELSE << [ brew_history |-> self.brew_history,
              water_usage_history |-> self.water_usage_history,
              profile_usage |-> self.profile_usage,
              last_total_brews |-> self.last_total_brews,
              last_total_water |-> self.last_total_water,
              last_updated |-> IsoFormat(t) ] >>

\* a save that writes the logs and the tally but not the baselines
async_save_history_NoBaselines(self, st, save_ok, t) ==
    IF ~self.data_loaded THEN st
    ELSE IF ~save_ok THEN st
    ELSE << [ brew_history |-> self.brew_history,
              water_usage_history |-> self.water_usage_history,
              profile_usage |-> self.profile_usage,
              last_total_brews |-> 0,
              last_total_water |-> 0,
              last_updated |-> IsoFormat(t) ] >>

\* _async_save_history: the new content of storage; save_ok = FALSE: async_save raises
async_save_history(self, st, save_ok, t) ==
    IF ~self.data_loaded THEN st
    ELSE IF ~save_ok THEN st
    ELSE << [ brew_history |-> self.brew_history,
              water_usage_history |-> self.water_usage_history,
              profile_usage |-> self.profile_usage,
              last_total_brews |-> self.last_total_brews,
              last_total_water |-> self.last_total_water,
              last_updated |-> IsoFormat(t) ] >>

\* a test that keeps a record stamped exactly at the cutoff
is_record_recent_Inclusive(record, cutoff_date) ==
    LET timestamp_str == DictGet(record, "timestamp", EmptyStr) IN
    IF timestamp_str = EmptyStr THEN FALSE
    ELSE LET record_dt == FromIsoFormat(timestamp_str) IN
         IF record_dt = <<>> THEN FALSE
         ELSE record_dt[1] >= cutoff_date

\* is_record_recent that accepts every record whose timestamp parses, whatever its age
is_record_recent_AnyAge(record, cutoff_date) ==
    LET timestamp_str == DictGet(record, "timestamp", EmptyStr) IN
    IF timestamp_str = EmptyStr THEN FALSE
    ELSE FromIsoFormat(timestamp_str) # <<>>

\* is_record_recent of _clean_old_records
is_record_recent(record, cutoff_date) ==
    LET timestamp_str == DictGet(record, "timestamp", EmptyStr) IN
    IF timestamp_str = EmptyStr THEN FALSE
    ELSE LET record_dt == FromIsoFormat(timestamp_str) IN
         IF record_dt = <<>> THEN FALSE
         ELSE record_dt[1] > cutoff_date

\* a prune that hands back the kept records newest first
CleanLog_NewestFirst(log, cutoff_date) ==
    LET keep(r) == is_record_recent(r, cutoff_date)
        kept == SelectSeq(log, keep)
    IN  [ i \in 1..Len(kept) |-> kept[Len(kept) + 1 - i] ]

\* one log with the records that are not recent removed, order kept
CleanLog(log, cutoff_date) ==
    LET keep(r) == is_record_recent(r, cutoff_date) IN SelectSeq(log, keep)

\* _clean_old_records
clean_old_records(self, cutoff_date) ==
    [self EXCEPT !.brew_history = CleanLog(@, cutoff_date),
                 !.water_usage_history = CleanLog(@, cutoff_date)]


\* a first-run test that does not look at the brew baseline
FirstRunApplies_BrewBaselineIgnored(self) ==
    /\ self.last_total_water = 0
    /\ Len(self.brew_history) = 0
    /\ Len(self.water_usage_history) = 0

\* FirstRunApplies with the test of the brew log inverted
FirstRunApplies_LogTestInverted(self) ==
    /\ self.last_total_brews = 0
    /\ self.last_total_water = 0
    /\ Len(self.brew_history) # 0
    /\ Len(self.water_usage_history) = 0

\* the first-run test of async_update_data
FirstRunApplies(self) ==
    /\ self.last_total_brews = 0
    /\ self.last_total_water = 0
    /\ Len(self.brew_history) = 0
    /\ Len(self.water_usage_history) = 0

\* the fields of a brew whose two timestamps passed the tests and converted
TimingFields(start_ts, end_ts) ==
    LET start_dt == utc_from_timestamp(start_ts)
        end_dt == utc_from_timestamp(end_ts)
    IN  IF start_dt = <<>> \/ end_dt = <<>> THEN EmptyDict
        ELSE [ start_time |-> start_dt[1],
               end_time |-> end_dt[1],
               duration_seconds |-> DigitsValue(end_ts) - DigitsValue(start_ts) ]

\* timing fields without the test that the start is before the end
BrewTiming_NoOrderTest(brew_start_time, brew_end_time) ==
    IF brew_start_time # <<>> /\ brew_end_time # <<>>
    THEN LET start_ts == ParseInt(brew_start_time)
             end_ts == ParseInt(brew_end_time)
         IN  IF start_ts = <<>> \/ end_ts = <<>> THEN EmptyDict
             ELSE IF IntPositive(start_ts[1]) /\ IntPositive(end_ts[1])
             THEN TimingFields(start_ts[1], end_ts[1])
             ELSE EmptyDict
    ELSE EmptyDict

\* the timing fields async_update_data adds to a brew record; a ValueError of int() or
\* of the conversion to a datetime leaves the record without them
BrewTiming(brew_start_time, brew_end_time) ==
    IF brew_start_time # <<>> /\ brew_end_time # <<>>
    THEN LET start_ts == ParseInt(brew_start_time)
             end_ts == ParseInt(brew_end_time)
         IN  IF start_ts = <<>> \/ end_ts = <<>> THEN EmptyDict
             ELSE IF /\ IntPositive(start_ts[1]) /\ IntPositive(end_ts[1])
                     /\ IntLess(start_ts[1], end_ts[1])
             THEN TimingFields(start_ts[1], end_ts[1])
             ELSE EmptyDict
    ELSE EmptyDict

\* an attribution that takes the first profile whatever is flagged
DefaultProfile_FirstAlways(profiles) ==
    profiles[1]

\* next((p for p in profiles if p.get("isDefaultProfile")), profiles[0]), profiles not empty
DefaultProfile(profiles) ==
    LET flagged == { i \in 1..Len(profiles) : DictGet(profiles[i], "isDefaultProfile", FALSE) }
    IN  IF flagged = {} THEN profiles[1]
        ELSE profiles[CHOOSE i \in flagged : \A j \in flagged : i <= j]

\* the profile fields async_update_data adds to a brew record
BrewProfile(profiles) ==
    IF Len(profiles) > 0 /\ DOMAIN DefaultProfile(profiles) # {}
    THEN LET default_profile == DefaultProfile(profiles) IN
         [ profile_id |-> DictGet(default_profile, "id", "None"),
           profile_title |-> DictGet(default_profile, "title", "Unknown Profile") ]
    ELSE EmptyDict

\* a counter that enters a title with its first brew and never counts it again
CountProfile_NewTitlesOnly(usage, profiles) ==
    IF Len(profiles) > 0 /\ DOMAIN DefaultProfile(profiles) # {}
    THEN LET profile_title == DictGet(DefaultProfile(profiles), "title", "Unknown Profile") IN
         IF OHas(usage, profile_title) THEN usage
         ELSE OInsert(usage, profile_title, 1)
    ELSE usage

\* the profile usage counter after one brew record
CountProfile(usage, profiles) ==
    IF Len(profiles) > 0 /\ DOMAIN DefaultProfile(profiles) # {}
    THEN LET profile_title == DictGet(DefaultProfile(profiles), "title", "Unknown Profile") IN
         IF OHas(usage, profile_title) THEN OIncr(usage, profile_title)
         ELSE OInsert(usage, profile_title, 1)
    ELSE usage

\* BrewsAtTime counting back from one record too many
BrewsAtTime_OffByOne(current_total_brews, new_brews, i) == current_total_brews - (new_brews - i)

\* total_brews_at_time of the i-th record (i from 0) of new_brews new ones
BrewsAtTime(current_total_brews, new_brews, i) == current_total_brews - (new_brews - 1 - i)

\* the brew record of loop index i
BrewRecord(i, new_brews, current_total_brews, current_total_water, device_config, profiles, t) ==
    [ timestamp |-> IsoFormat(t),
      total_brews_at_time |-> BrewsAtTime(current_total_brews, new_brews, i),
      total_water_at_time |-> current_total_water ]
    @@ BrewTiming(DictGet(device_config, "brewStartTime", <<>>),
                  DictGet(device_config, "brewEndTime", <<>>))
    @@ BrewProfile(profiles)

\* for i in range(new_brews), from index i on
RECURSIVE BrewLoop(_, _, _, _, _, _, _)
BrewLoop(self, i, new_brews, current_total_brews, current_total_water, device_config, profiles_t) ==
    IF i >= new_brews THEN self
    ELSE BrewLoop(
           [self EXCEPT
              !.brew_history = Append(@, BrewRecord(i, new_brews, current_total_brews,
                                  current_total_water, device_config, profiles_t[1], profiles_t[2])),
              !.profile_usage = CountProfile(@, profiles_t[1])],
           i + 1, new_brews, current_total_brews, current_total_water, device_config, profiles_t)

\* the brew detection test
BrewDetected(current_total_brews, self) == current_total_brews > self.last_total_brews

\* DetectBrews leaving last_total_brews where it was
DetectBrews_BaselineKept(self, current_total_brews, current_total_water, device_config, profiles, t) ==
    IF BrewDetected(current_total_brews, self)
    THEN BrewLoop(self, 0, current_total_brews - self.last_total_brews, current_total_brews,
                  current_total_water, device_config, <<profiles, t>>)
    ELSE self

\* the brew detection block of async_update_data
DetectBrews(self, current_total_brews, current_total_water, device_config, profiles, t) ==
    IF BrewDetected(current_total_brews, self)
    THEN LET new_brews == current_total_brews - self.last_total_brews
             looped == BrewLoop(self, 0, new_brews, current_total_brews, current_total_water,
                                device_config, <<profiles, t>>)
         IN  [looped EXCEPT !.last_total_brews = current_total_brews]
    ELSE self

\* a water detection test that fires on every change of the counter
WaterDetected_AnyChange(current_total_water, self) ==
    current_total_water # self.last_total_water

\* the water detection test
WaterDetected(current_total_water, self) == current_total_water > self.last_total_water

\* WaterUsed taking the counter itself for the amount used
WaterUsed_Cumulative(current_total_water, self) == current_total_water

\* water_used of the water record
WaterUsed(current_total_water, self) == current_total_water - self.last_total_water

\* DetectWater leaving last_total_water where it was
DetectWater_BaselineKept(self, current_total_water, t) ==
    IF WaterDetected(current_total_water, self)
    THEN LET water_record == [ timestamp |-> IsoFormat(t),
                               water_used_ml |-> WaterUsed(current_total_water, self),
                               total_water_at_time |-> current_total_water ]
         IN  [self EXCEPT !.water_usage_history = Append(@, water_record)]
    ELSE self

\* the water detection block of async_update_data
DetectWater(self, current_total_water, t) ==
    IF WaterDetected(current_total_water, self)
    THEN LET water_record == [ timestamp |-> IsoFormat(t),
                               water_used_ml |-> WaterUsed(current_total_water, self),
                               total_water_at_time |-> current_total_water ]
         IN  [self EXCEPT !.water_usage_history = Append(@, water_record),
                          !.last_total_water = current_total_water]
    ELSE self

\* a gate that loads on every call
Hydrated_EveryCall(self, st, load_ok) == async_load_history(self, st, load_ok)

\* the engine as async_update_data sees it after "if not self._data_loaded: load"
Hydrated(self, st, load_ok) ==
    IF ~self.data_loaded THEN async_load_history(self, st, load_ok) ELSE self

\* a first-run block that adopts the water total only
InitBaselines_WaterOnly(self, current_total_brews, current_total_water) ==
    IF FirstRunApplies(self)
    THEN [self EXCEPT !.last_total_water = current_total_water]
    ELSE self

\* the first-run block of async_update_data
InitBaselines(self, current_total_brews, current_total_water) ==
    IF FirstRunApplies(self)
    THEN [self EXCEPT !.last_total_brews = current_total_brews,
                      !.last_total_water = current_total_water]
    ELSE self

\* whether the cleaning and the save run: data_changed
DataChanged(first_run, brew_detected, water_detected) ==
    first_run \/ brew_detected \/ water_detected

\* async_update_data: the engine and the storage after the call, and the call's local values
async_update_data(self, st, device_config, profiles, t, load_ok, save_ok) ==
    LET s0 == Hydrated(self, st, load_ok)
        current_total_brews == DictGet(device_config, "totalBrewingCycles", 0)
        current_total_water == DictGet(device_config, "totalWaterVolumeL", 0)
        first_run == FirstRunApplies(s0)
        s1 == InitBaselines(s0, current_total_brews, current_total_water)
        brew_detected == BrewDetected(current_total_brews, s1)
        s2 == DetectBrews(s1, current_total_brews, current_total_water, device_config, profiles, t)
        water_detected == WaterDetected(current_total_water, s2)
        s3 == DetectWater(s2, current_total_water, t)
        data_changed == DataChanged(first_run, brew_detected, water_detected)
        s4 == IF data_changed THEN clean_old_records(s3, t - HISTORY_RETENTION_DAYS) ELSE s3
    IN  [ self |-> s4,
          store |-> IF data_changed THEN async_save_history(s4, st, save_ok, t) ELSE st,
          first_run |-> first_run,
          brews_appended |-> SubSeq(s2.brew_history, Len(s1.brew_history) + 1, Len(s2.brew_history)),
          water_appended |-> SubSeq(s3.water_usage_history, Len(s2.water_usage_history) + 1,
                                    Len(s3.water_usage_history)),
          brew_detected |-> brew_detected,
          water_detected |-> water_detected,
          data_changed |-> data_changed ]

\* a reset that sets the baseline and leaves the water log as it was
async_reset_water_tracking_LogKept(self, st, current_total_water, save_ok, t) ==
    LET s1 == [self EXCEPT !.last_total_water = current_total_water]
    IN  [ self |-> s1, store |-> async_save_history(s1, st, save_ok, t) ]

\* a reset that clears the water log and leaves the baseline where it was
async_reset_water_tracking_BaselineKept(self, st, current_total_water, save_ok, t) ==
    LET s1 == [self EXCEPT !.water_usage_history = <<>>]
    IN  [ self |-> s1, store |-> async_save_history(s1, st, save_ok, t) ]

\* a reset that clears the brew log and the tally as well
async_reset_water_tracking_ClearsAll(self, st, current_total_water, save_ok, t) ==
    LET s1 == [self EXCEPT !.water_usage_history = <<>>,
                           !.brew_history = <<>>,
                           !.profile_usage = <<>>,
                           !.last_total_water = current_total_water]
    IN  [ self |-> s1, store |-> async_save_history(s1, st, save_ok, t) ]

\* async_reset_water_tracking: the engine and the storage after the call
async_reset_water_tracking(self, st, current_total_water, save_ok, t) ==
    LET s1 == [self EXCEPT !.water_usage_history = <<>>,
                           !.last_total_water = current_total_water]
    IN  [ self |-> s1, store |-> async_save_history(s1, st, save_ok, t) ]

\* WaterLoop that also counts a record stamped exactly at the cutoff
RECURSIVE WaterLoop_Inclusive(_, _, _, _)
WaterLoop_Inclusive(log, i, cutoff_date, total_water) ==
    IF i > Len(log) THEN total_water
    ELSE LET record == log[i]
             timestamp_str == DictGet(record, "timestamp", EmptyStr)
             record_dt == IF timestamp_str = EmptyStr THEN <<>> ELSE FromIsoFormat(timestamp_str)
         IN  IF record_dt # <<>> /\ record_dt[1] >= cutoff_date
             THEN WaterLoop_Inclusive(log, i + 1, cutoff_date,
                                      total_water + DictGet(record, "water_used_ml", 0))
             ELSE WaterLoop_Inclusive(log, i + 1, cutoff_date, total_water)

\* for record in self._water_usage_history, from index i on, total_water so far
RECURSIVE WaterLoop(_, _, _, _)
WaterLoop(log, i, cutoff_date, total_water) ==
    IF i > Len(log) THEN total_water
    ELSE LET record == log[i]
             timestamp_str == DictGet(record, "timestamp", EmptyStr)
             record_dt == IF timestamp_str = EmptyStr THEN <<>> ELSE FromIsoFormat(timestamp_str)
         IN  IF record_dt # <<>> /\ record_dt[1] > cutoff_date
             THEN WaterLoop(log, i + 1, cutoff_date, total_water + DictGet(record, "water_used_ml", 0))
             ELSE WaterLoop(log, i + 1, cutoff_date, total_water)

\* get_water_usage_for_period, in hundredths of a litre
get_water_usage_for_period(self, days, t) ==
    IF Len(self.water_usage_history) = 0 THEN 0
    ELSE RoundLitres(WaterLoop(self.water_usage_history, 1, t - days, 0))

\* a sensor that answers from the live counter while the log is empty
WaterSensorValue_LiveFallback(self, data, days, t) ==
    IF Len(self.water_usage_history) = 0
    THEN RoundLitres(DictGet(DictGet(data, "device_config", EmptyDict), "totalWaterVolumeL", 0))
    ELSE get_water_usage_for_period(self, days, t)

\* native_value of the today / week / month water sensors; data is coordinator.data
WaterSensorValue(self, data, days, t) ==
    LET water_usage == get_water_usage_for_period(self, days, t) IN
    IF water_usage < 0 THEN 0 ELSE water_usage


----------------------------------------------------------------------------
(* The state machine *)

NoTrack == [base |-> 0, sum |-> 0]

NoSeq == [active |-> FALSE, calls |-> 0, base |-> 0, first |-> 0, last |-> 0,
          added |-> 0, adopted |-> 0]

\* no coroutine suspended, no write in flight, the config entry not yet loaded
NoTasks ==
    [ refresh |-> "idle", snapshot |-> <<>>, reset |-> "idle", writes |-> <<>>,
      data |-> <<>>, loaded |-> FALSE, tick |-> <<>>, stopped |-> <<>> ]

\* _fetch is not running
NoFetch ==
    [ pc |-> "idle", list |-> "profiles", verbose |-> FALSE, named |-> FALSE, profiles |-> <<>>,
      schedules |-> <<>>, outcome |-> "none" ]

\* no management action is running
NoJob == [op |-> "none", pc |-> "idle", early |-> FALSE, outcome |-> "none", refreshes |-> 0]

\* FellowAidenDataUpdateCoordinator.__init__: no client yet, the config entry not
\* loaded, the flag down
NewCoordinator ==
    [ api |-> <<>>, loaded |-> FALSE, next_refresh_verbose |-> FALSE,
      refresh_pending |-> FALSE, fetch |-> NoFetch, job |-> NoJob ]

\* no poll in progress
NoPoll ==
    [ op |-> "none", valid |-> TRUE, pc |-> "idle", req |-> "none", call |-> 0, sends |-> 0, req_sends |-> 0, auths |-> 0,
      login_sends |-> 0, name |-> FALSE, profiles_ok |-> TRUE, denied |-> FALSE,
      outcome |-> "none" ]

\* construction: BrewHistoryManager.__init__ on an installation with nothing stored
Init ==
    /\ brew_history = NewManager.brew_history
    /\ water_usage_history = NewManager.water_usage_history
    /\ profile_usage = NewManager.profile_usage
    /\ last_total_brews = NewManager.last_total_brews
    /\ last_total_water = NewManager.last_total_water
    /\ data_loaded = NewManager.data_loaded
    /\ store = <<>>
    /\ now = 0
    /\ last_call = [op |-> "init"]
    /\ wtrack = NoTrack
    /\ seq = NoSeq
    /\ poll = NoPoll
    /\ tasks = NoTasks
    /\ coordinator = NewCoordinator

SetSelf(s) ==
    /\ brew_history' = s.brew_history
    /\ water_usage_history' = s.water_usage_history
    /\ profile_usage' = s.profile_usage
    /\ last_total_brews' = s.last_total_brews
    /\ last_total_water' = s.last_total_water
    /\ data_loaded' = s.data_loaded

\* one poll: the coordinator hands a snapshot to async_update_data.  Inputs the call
\* does not read (timing and profiles without a detected brew, the outcome of a load or
\* a save that does not run) are held at one value.  last_call keeps what the call did:
\* whether first-run initialization fired, how many records it appended to each log and
\* how many it pruned.
UpdateStep(env) ==
    \E load_ok \in (IF data_loaded THEN {TRUE} ELSE env.load_outcomes) :
    \E cc \in env.configs :
        LET cb == DictGet(cc, "totalBrewingCycles", 0)
            cw == DictGet(cc, "totalWaterVolumeL", 0)
            s0 == Hydrated(Self, store, load_ok)
            s1 == InitBaselines(s0, cb, cw)
            detects == BrewDetected(cb, s1)
            changed == DataChanged(FirstRunApplies(s0), detects, WaterDetected(cw, s1))
        IN
        \E tp \in (IF detects THEN env.timings ELSE {NoTiming}) :
        \E profiles \in (IF detects THEN env.profile_lists ELSE {<<>>}) :
        \E save_ok \in (IF changed THEN env.save_outcomes ELSE {TRUE}) :
            LET r == async_update_data(Self, store, WithTiming(cc, tp), profiles, now,
                                       load_ok, save_ok)
            IN  /\ SetSelf(r.self)
                /\ store' = r.store
                /\ now' = now
                /\ last_call' = [ op |-> "update",
                                  prev |-> last_call.op,
                                  first_run |-> r.first_run,
                                  new_brews |-> Len(r.brews_appended),
                                  new_water |-> Len(r.water_appended),
                                  pruned |-> Len(s0.brew_history) + Len(r.brews_appended)
                                             + Len(s0.water_usage_history) + Len(r.water_appended)
                                             - Len(r.self.brew_history)
                                             - Len(r.self.water_usage_history) ]

\* the reset_water_tracking service
ResetStep(env) ==
    \E b \in env.baselines :
    \E save_ok \in (IF data_loaded THEN env.save_outcomes ELSE {TRUE}) :
        LET r == async_reset_water_tracking(Self, store, b, save_ok, now) IN
        /\ SetSelf(r.self)
        /\ store' = r.store
        /\ now' = now
        /\ last_call' = [op |-> "reset"]

\* time passes to the next instant at which the clock is read
TickStep(env) ==
    /\ \E t \in env.instants : t > now
    /\ now' = CHOOSE t \in env.instants : t > now /\ \A u \in env.instants : u > now => t <= u
    /\ last_call' = [op |-> "tick"]
    /\ UNCHANGED <<brew_history, water_usage_history, profile_usage, last_total_brews,
                   last_total_water, data_loaded, store>>

\* the process restarts: a new BrewHistoryManager over the same storage
RestartStep ==
    /\ SetSelf(NewManager)
    /\ last_call' = [op |-> "restart"]
    /\ UNCHANGED <<store, now>>

\* a water sensor or the debug service asks for the usage of a period
QueryStep(env) ==
    \E days \in env.periods :
    \E live \in env.live_totals :
        /\ last_call' = [ op |-> "query", days |-> days,
                          result |-> get_water_usage_for_period(Self, days, now),
                          sensor |-> WaterSensorValue(Self,
                                       [device_config |-> [totalWaterVolumeL |-> live]], days, now) ]
        /\ UNCHANGED <<brew_history, water_usage_history, profile_usage, last_total_brews,
                       last_total_water, data_loaded, store, now>>

----------------------------------------------------------------------------
(* Spec: polls, resets and restarts around two instants; storage may fail to load *)

Env ==
    [ configs |-> CounterConfigs, timings |-> {NoTiming},
      profile_lists |-> {<<ProfileLight, ProfileBold>>},
      load_outcomes |-> BOOLEAN, save_outcomes |-> {TRUE}, baselines |-> ResetBaselines,
      instants |-> Instants ]

Update == UpdateStep(Env) /\ UNCHANGED <<wtrack, seq, poll, tasks, coordinator>>

Reset == ResetStep(Env) /\ UNCHANGED <<wtrack, seq, poll, tasks, coordinator>>

Tick == TickStep(Env) /\ UNCHANGED <<wtrack, seq, poll, tasks, coordinator>>

Restart == RestartStep /\ UNCHANGED <<wtrack, seq, poll, tasks, coordinator>>

Next == Update \/ Reset \/ Tick \/ Restart

Spec == Init /\ [][Next]_vars

----------------------------------------------------------------------------
(* What the claims are stated over *)

Range(s) == { s[i] : i \in 1..Len(s) }

\* part holds records of whole, in the order of whole
IsSubSeqOf(part, whole) ==
    LET InPart(r) == r \in Range(part) IN part = SelectSeq(whole, InPart)

\* the snapshots a call is tried with: every counter pair, with and without timing,
\* every profile list
Snapshots ==
    { <<WithTiming(cc, tp), pl>> :
        cc \in CounterConfigs, tp \in {NoTiming, <<Str100, Str160>>}, pl \in ProfileLists }

\* the outcomes the load of the next update may have
LoadOutcomes == IF data_loaded THEN {TRUE} ELSE BOOLEAN

TotalBrews(snapshot) == DictGet(snapshot[1], "totalBrewingCycles", 0)

TotalWater(snapshot) == DictGet(snapshot[1], "totalWaterVolumeL", 0)

\* the outcome of async_update_data called now with the snapshot
UpdateNow(snapshot, load_ok) ==
    async_update_data(Self, store, snapshot[1], snapshot[2], now, load_ok, TRUE)

\* both baselines are 0 and both logs are empty
FreshState(self) ==
    /\ self.last_total_brews = 0 /\ self.last_total_water = 0
    /\ self.brew_history = <<>> /\ self.water_usage_history = <<>>

\* C1: an update of an engine whose baselines are both 0 and whose logs are both empty
\* (as the call finds them once the history is loaded), with a snapshot whose totals are
\* non-zero, creates no brew record and no water record and sets both baselines to the
\* snapshot's totals.
C1_FirstRunCreatesNoRecords ==
    \A snapshot \in Snapshots : \A load_ok \in LoadOutcomes :
        LET before == Hydrated(Self, store, load_ok)
            after == UpdateNow(snapshot, load_ok).self
        IN  (FreshState(before) /\ TotalBrews(snapshot) # 0 /\ TotalWater(snapshot) # 0)
            => /\ after.brew_history = <<>>
               /\ after.water_usage_history = <<>>
               /\ after.last_total_brews = TotalBrews(snapshot)
               /\ after.last_total_water = TotalWater(snapshot)

\* a first-run initialization has just adopted non-zero totals
C1_Witness ==
    /\ last_call.op = "update" /\ last_call.first_run
    /\ last_total_brews > 0 /\ last_total_water > 0
    /\ brew_history = <<>> /\ water_usage_history = <<>>

\* the age in days, at time t, of a record the engine stamped
RecordAge(r, t) == t - r.timestamp.iso

\* new is what is left of old, in order, followed by exactly k more records
AppendsExactly(old, new, k) ==
    /\ Len(new) >= k
    /\ IsSubSeqOf(SubSeq(new, 1, Len(new) - k), old)
    /\ \A i \in 1..k : new[Len(new) - k + i] \notin Range(old)

\* the last k records of a log
LastRecords(log, k) == SubSeq(log, Len(log) - k + 1, Len(log))

\* C3: on an update to which first-run initialization does not apply and whose
\* totalBrewingCycles exceeds last_total_brews by n > 0, exactly n brew records are
\* appended; their total_brews_at_time are last_total_brews+1 .. totalBrewingCycles in
\* log order; all n carry one timestamp and the snapshot's water total; and
\* last_total_brews becomes totalBrewingCycles.
C3_BrewDeltaRecords ==
    \A snapshot \in Snapshots : \A load_ok \in LoadOutcomes :
        LET before == Hydrated(Self, store, load_ok)
            after == UpdateNow(snapshot, load_ok).self
            n == TotalBrews(snapshot) - before.last_total_brews
            added == LastRecords(after.brew_history, n)
        IN  (~FreshState(before) /\ n > 0)
            => /\ AppendsExactly(before.brew_history, after.brew_history, n)
               /\ \A i \in 1..n :
                    /\ added[i].total_brews_at_time = before.last_total_brews + i
                    /\ added[i].timestamp = added[1].timestamp
                    /\ added[i].total_water_at_time = TotalWater(snapshot)
               /\ after.last_total_brews = TotalBrews(snapshot)

\* an update that was not a first run has just appended two brew records
C3_Witness ==
    /\ last_call.op = "update" /\ ~last_call.first_run /\ last_call.new_brews = 2
    /\ Len(brew_history) >= 2
    /\ brew_history[Len(brew_history)].total_brews_at_time = last_total_brews
    /\ brew_history[Len(brew_history) - 1].total_brews_at_time = last_total_brews - 1

\* C4: on an update to which first-run initialization does not apply, if
\* totalWaterVolumeL exceeds last_total_water exactly one water record is appended, with
\* water_used_ml the difference, however many brews the call detects, and
\* last_total_water becomes totalWaterVolumeL; otherwise no water record is appended.
C4_OneWaterRecordPerUpdate ==
    \A snapshot \in Snapshots : \A load_ok \in LoadOutcomes :
        LET before == Hydrated(Self, store, load_ok)
            after == UpdateNow(snapshot, load_ok).self
            log == after.water_usage_history
        IN  ~FreshState(before)
            => IF TotalWater(snapshot) > before.last_total_water
               THEN /\ AppendsExactly(before.water_usage_history, log, 1)
                    /\ log[Len(log)].water_used_ml = TotalWater(snapshot) - before.last_total_water
                    /\ after.last_total_water = TotalWater(snapshot)
               ELSE /\ AppendsExactly(before.water_usage_history, log, 0)
                    /\ after.last_total_water = before.last_total_water

\* an update that was not a first run has just appended two brew records and one water record
C4_Witness ==
    /\ last_call.op = "update" /\ ~last_call.first_run
    /\ last_call.new_brews = 2 /\ last_call.new_water = 1
    /\ water_usage_history # <<>>
    /\ water_usage_history[Len(water_usage_history)].water_used_ml = 200

\* C6: a second async_update_data with the snapshot of the call before it (same
\* counters, same timing, same profiles), at the same or a later time, appends no brew
\* record and no water record and leaves both baselines and the tally as the first call
\* left them.
C6_DuplicateSnapshotIdempotent ==
    \A snapshot \in Snapshots : \A load_ok \in LoadOutcomes :
    \A later \in { t \in Instants : t >= now } :
        LET first == UpdateNow(snapshot, load_ok)
            second == async_update_data(first.self, first.store, snapshot[1], snapshot[2],
                                        later, TRUE, TRUE)
        IN  /\ second.self.brew_history = first.self.brew_history
            /\ second.self.water_usage_history = first.self.water_usage_history
            /\ second.self.last_total_brews = first.self.last_total_brews
            /\ second.self.last_total_water = first.self.last_total_water
            /\ second.self.profile_usage = first.self.profile_usage

\* an update that follows an update has appended nothing to logs that hold the records
\* of the totals the baselines stand at
C6_Witness ==
    /\ last_call.op = "update" /\ last_call.prev = "update" /\ ~last_call.first_run
    /\ last_call.new_brews = 0 /\ last_call.new_water = 0
    /\ brew_history # <<>> /\ water_usage_history # <<>> /\ profile_usage # <<>>
    /\ brew_history[Len(brew_history)].total_brews_at_time = last_total_brews
    /\ water_usage_history[Len(water_usage_history)].total_water_at_time = last_total_water

\* every counter pair, with the profile list of the device and no timing
CounterSnapshots == { <<cc, <<ProfileLight, ProfileBold>> >> : cc \in CounterConfigs }

\* the water log after a reset to b now and then, at time t, an update with the snapshot
ResetThenUpdate(b, snapshot, t) ==
    LET r1 == async_reset_water_tracking(Self, store, b, TRUE, now)
    IN  async_update_data(r1.self, r1.store, snapshot[1], snapshot[2], t, TRUE, TRUE)
            .self.water_usage_history

\* the single water record an update at time t makes of a rise from b to the snapshot's total
OneRecordOf(b, snapshot, t) ==
    << [ timestamp |-> IsoFormat(t),
         water_used_ml |-> TotalWater(snapshot) - b,
         total_water_at_time |-> TotalWater(snapshot) ] >>

\* C10 as stated, for an engine that has loaded its history: after a reset to b the water
\* log is empty and last_total_water is b, and the next update with totalWaterVolumeL =
\* b + d, d > 0, leaves exactly one water record, of d.
C10_ResetThenOneRecord ==
    data_loaded =>
    \A b \in ResetBaselines : \A snapshot \in CounterSnapshots : \A t \in Instants :
        LET r1 == async_reset_water_tracking(Self, store, b, TRUE, now).self
        IN  /\ r1.water_usage_history = <<>>
            /\ r1.last_total_water = b
            /\ (TotalWater(snapshot) > b /\ t >= now)
               => ResetThenUpdate(b, snapshot, t) = OneRecordOf(b, snapshot, t)

\* C10, amended: after a reset to b the water log is empty and last_total_water is b; if
\* the engine has loaded its history and it is not the case that b = 0, last_total_brews
\* = 0 and the brew log is empty, the next update with totalWaterVolumeL = b + d, d > 0,
\* leaves exactly one water record, of d; in the excepted case the update is a first-run
\* initialization: it leaves the water log empty and sets last_total_water to b + d.
C10_ResetThenOneRecordUnlessFirstRun ==
    \A b \in ResetBaselines : \A snapshot \in CounterSnapshots : \A t \in Instants :
        LET r1 == async_reset_water_tracking(Self, store, b, TRUE, now)
            r2 == async_update_data(r1.self, r1.store, snapshot[1], snapshot[2], t, TRUE, TRUE)
            excepted == b = 0 /\ last_total_brews = 0 /\ brew_history = <<>>
        IN  /\ r1.self.water_usage_history = <<>>
            /\ r1.self.last_total_water = b
            /\ (data_loaded /\ TotalWater(snapshot) > b /\ t >= now)
               => IF excepted
                  THEN /\ r2.self.water_usage_history = <<>>
                       /\ r2.self.last_total_water = TotalWater(snapshot)
                  ELSE r2.self.water_usage_history = OneRecordOf(b, snapshot, t)

\* the update that followed a reset to 5000 reported 5200 and left one record of 200
C10_Witness ==
    /\ last_call.op = "update" /\ last_call.prev = "reset"
    /\ Len(water_usage_history) = 1
    /\ water_usage_history[1].water_used_ml = 200
    /\ last_total_water = 5200

----------------------------------------------------------------------------
(* SpecRun: one engine from construction on, with no restart of the process.          *)
(* wtrack keeps the value the water baseline was last set to, by first-run            *)
(* initialization or by a reset, and the water_used_ml of the records appended since. *)

RECURSIVE SumWater(_)
SumWater(records) ==
    IF Len(records) = 0 THEN 0
    ELSE records[1].water_used_ml + SumWater(Tail(records))

RunUpdate ==
    /\ UpdateStep(Env)
    /\ wtrack' = [ base |-> IF last_call'.first_run THEN last_total_water' ELSE wtrack.base,
                   sum |-> (IF last_call'.first_run THEN 0 ELSE wtrack.sum)
                           + SumWater(LastRecords(water_usage_history', last_call'.new_water)) ]
    /\ UNCHANGED <<seq, poll, tasks, coordinator>>

RunReset ==
    /\ ResetStep(Env)
    /\ wtrack' = [base |-> last_total_water', sum |-> 0]
    /\ UNCHANGED <<seq, poll, tasks, coordinator>>

RunTick == TickStep(Env) /\ UNCHANGED <<wtrack, seq, poll, tasks, coordinator>>

NextRun == RunUpdate \/ RunReset \/ RunTick

SpecRun == Init /\ [][NextRun]_vars

\* C5: from a fresh engine, over any sequence of updates and water resets, every water
\* record has water_used_ml > 0, and the water_used_ml of the records appended since the
\* water baseline was last set (by first-run initialization or by a reset) add up to
\* last_total_water minus the value it was set to.
C5_WaterDeltasAddUp ==
    /\ \A i \in 1..Len(water_usage_history) : water_usage_history[i].water_used_ml > 0
    /\ wtrack.sum = last_total_water - wtrack.base

\* two water records have been appended since the baseline was set to 0
C5_Witness ==
    /\ Len(water_usage_history) = 2
    /\ wtrack.base = 0 /\ wtrack.sum = 5200
    /\ last_call.op = "update" /\ last_call.new_water = 1

----------------------------------------------------------------------------
(* SpecAging: one installation followed over more than a retention period, with the
   period queries of the sensors and of the debug service *)

LiveTotals == {0, 5304}

EnvAging ==
    [ configs |-> AgingConfigs, timings |-> {NoTiming}, profile_lists |-> {<<>>},
      load_outcomes |-> {TRUE}, save_outcomes |-> {TRUE}, baselines |-> {},
      instants |-> AgingInstants, periods |-> Periods, live_totals |-> LiveTotals ]

AgingUpdate == UpdateStep(EnvAging) /\ UNCHANGED <<wtrack, seq, poll, tasks, coordinator>>

AgingTick == TickStep(EnvAging) /\ UNCHANGED <<wtrack, seq, poll, tasks, coordinator>>

AgingQuery == QueryStep(EnvAging) /\ UNCHANGED <<wtrack, seq, poll, tasks, coordinator>>

NextAging == AgingUpdate \/ AgingTick \/ AgingQuery

SpecAging == Init /\ [][NextAging]_vars

\* the snapshots a call is tried with in these runs
AgingSnapshots == { <<cc, <<>> >> : cc \in AgingConfigs }

\* coordinator.data as a sensor sees it when the device reports the live total
LiveData(live) == [device_config |-> [totalWaterVolumeL |-> live]]

\* C7: the period query and the water sensors built on it depend only on the water log
\* and the current time: an engine with the same water log but other baselines, read while
\* the device reports another live total, gives the same answers; with an empty log the
\* answer is the number 0, whatever the live counter is.
C7_QueryReadsOnlyTheLog ==
    \A days \in Periods : \A lb \in 0..MaxAgingBrews : \A lw \in AgingWaterTotals \cup {0} :
    \A live \in LiveTotals : \A live2 \in LiveTotals :
        LET other == [Self EXCEPT !.last_total_brews = lb, !.last_total_water = lw,
                                  !.brew_history = <<>>, !.profile_usage = <<>>]
            result == get_water_usage_for_period(Self, days, now)
            sensor == WaterSensorValue(Self, LiveData(live), days, now)
        IN  /\ result \in Nat
            /\ sensor \in Nat
            /\ get_water_usage_for_period(other, days, now) = result
            /\ WaterSensorValue(other, LiveData(live2), days, now) = sensor
            /\ sensor = result
            /\ water_usage_history = <<>> => (result = 0 /\ sensor = 0)

\* a sensor has answered from a non-empty log with a value that is neither the baseline
\* nor the live total
C7_Witness ==
    /\ last_call.op = "query"
    /\ water_usage_history # <<>>
    /\ last_call.sensor > 0
    /\ last_call.sensor # RoundLitres(last_total_water)
    /\ last_call.sensor = last_call.result

\* the sum of water_used_ml over the log positions in the set
RECURSIVE SumAt(_, _)
SumAt(log, positions) ==
    IF positions = {} THEN 0
    ELSE LET i == CHOOSE j \in positions : TRUE
         IN  log[i].water_used_ml + SumAt(log, positions \ {i})

\* the log holds exactly 200 ml stamped 10 days ago and 100 ml stamped 2 days ago
C8_Example ==
    /\ Len(water_usage_history) = 2
    /\ water_usage_history[1].water_used_ml = 200
    /\ RecordAge(water_usage_history[1], now) = 10
    /\ water_usage_history[2].water_used_ml = 100
    /\ RecordAge(water_usage_history[2], now) = 2

\* C8: the period query answers with the sum of water_used_ml over exactly the water
\* records stamped strictly after now - days, as litres to two decimals (the hundredth of
\* a litre nearest to the sum in millilitres); with 100 ml two days old and 200 ml ten days
\* old it answers 0.10 for 7 days and 0.30 for 30 days.
C8_PeriodQuerySum ==
    /\ \A days \in Periods :
        LET inside == { i \in 1..Len(water_usage_history) :
                           RecordAge(water_usage_history[i], now) < days }
            ml == SumAt(water_usage_history, inside)
            result == get_water_usage_for_period(Self, days, now)
        IN  /\ 10 * result - 5 <= ml
            /\ ml < 10 * result + 5
    /\ C8_Example => /\ get_water_usage_for_period(Self, 7, now) = 10
                      /\ get_water_usage_for_period(Self, 30, now) = 30
    /\ last_call.op = "query"
        => last_call.result = get_water_usage_for_period(Self, last_call.days, now)

\* the week has been asked for with 100 ml two days old and 200 ml ten days old
C8_Witness ==
    /\ C8_Example
    /\ last_call.op = "query" /\ last_call.days = 7 /\ last_call.result = 10

\* the records of both logs
AllRecords(self) == Range(self.brew_history) \cup Range(self.water_usage_history)

\* C9 as stated: after any update no record 400 days old or older is left, and every
\* record 300 days old or younger is still there.
C9_PrunedByAnyUpdate ==
    \A snapshot \in AgingSnapshots : \A load_ok \in LoadOutcomes :
        LET before == Hydrated(Self, store, load_ok)
            after == UpdateNow(snapshot, load_ok).self
        IN  /\ \A r \in AllRecords(after) : RecordAge(r, now) < 400
            /\ \A r \in AllRecords(before) : RecordAge(r, now) <= 300 => r \in AllRecords(after)

\* C9, amended: after an update in which brew detection, water detection or first-run
\* initialization fired, no record 400 days old or older is left in either log; after
\* every update, every record 300 days old or younger is still in its log.
C9_PrunedWhenDataChanged ==
    \A snapshot \in AgingSnapshots : \A load_ok \in LoadOutcomes :
        LET before == Hydrated(Self, store, load_ok)
            r == UpdateNow(snapshot, load_ok)
            after == r.self
        IN  /\ r.data_changed
               => /\ \A rec \in Range(after.brew_history) : RecordAge(rec, now) < 400
                  /\ \A rec \in Range(after.water_usage_history) : RecordAge(rec, now) < 400
            /\ \A rec \in Range(before.brew_history) :
                    RecordAge(rec, now) <= 300 => rec \in Range(after.brew_history)
            /\ \A rec \in Range(before.water_usage_history) :
                    RecordAge(rec, now) <= 300 => rec \in Range(after.water_usage_history)

\* an update on day 410 has pruned records and kept a water record stamped on day 110,
\* 300 days old; nothing stamped on day 10 or before is left
C9_Witness ==
    /\ now = 410
    /\ last_call.op = "update" /\ last_call.pruned > 0
    /\ \E r \in Range(water_usage_history) : RecordAge(r, now) = 300
    /\ \A r \in AllRecords(Self) : RecordAge(r, now) < 400

----------------------------------------------------------------------------
(* SpecMono: after any history of polls and restarts, a run of consecutive updates whose
   totalBrewingCycles never decrease is marked and its appended brew records are counted.
   seq.base is last_total_brews as the first call of the run finds it once the history is
   loaded, seq.first and seq.last the first and the latest total of the run, seq.added the
   brew records the run's calls appended, seq.adopted the totals its first-run
   initializations took over as baseline. *)

MonoConfigs ==
    { [totalBrewingCycles |-> b, totalWaterVolumeL |-> w] : b \in 0..MaxBrews, w \in {0, 5000} }

EnvMono ==
    [ configs |-> MonoConfigs, timings |-> {NoTiming}, profile_lists |-> {<<>>},
      load_outcomes |-> BOOLEAN, save_outcomes |-> {TRUE}, baselines |-> {},
      instants |-> Instants ]

\* what happens before the run is marked
MonoUpdate == ~seq.active /\ UpdateStep(EnvMono) /\ UNCHANGED <<wtrack, seq, poll, tasks, coordinator>>

MonoRestart == ~seq.active /\ RestartStep /\ UNCHANGED <<wtrack, seq, poll, tasks, coordinator>>

MonoTick == TickStep(EnvMono) /\ UNCHANGED <<wtrack, seq, poll, tasks, coordinator>>

\* the next call of the run, the first one marking it; its total is not below the last one
SeqUpdate ==
    /\ seq.calls < MaxSeqCalls
    /\ \E cc \in MonoConfigs :
       \E load_ok \in (IF data_loaded THEN {TRUE} ELSE EnvMono.load_outcomes) :
            LET total == DictGet(cc, "totalBrewingCycles", 0) IN
            /\ seq.active => total >= seq.last
            /\ UpdateStep([EnvMono EXCEPT !.configs = {cc}, !.load_outcomes = {load_ok}])
            /\ seq' = [ active |-> TRUE,
                        calls |-> seq.calls + 1,
                        base |-> IF seq.active THEN seq.base
                                 ELSE Hydrated(Self, store, load_ok).last_total_brews,
                        first |-> IF seq.active THEN seq.first ELSE total,
                        last |-> total,
                        added |-> seq.added + last_call'.new_brews,
                        adopted |-> seq.adopted + IF last_call'.first_run THEN total ELSE 0 ]
    /\ UNCHANGED <<wtrack, poll, tasks, coordinator>>

NextMono == MonoUpdate \/ MonoRestart \/ MonoTick \/ SeqUpdate

SpecMono == Init /\ [][NextMono]_vars

\* C2 as stated: over a run of updates with non-decreasing totalBrewingCycles, the brew
\* records appended number the final total minus last_total_brews before the first call.
C2_AddedIsFinalMinusInitial ==
    seq.active => seq.added = seq.last - seq.base

\* C2, amended: over a run of consecutive updates of one engine whose totalBrewingCycles
\* never decrease and start at or above last_total_brews as the first call finds it once
\* the history is loaded, the brew records appended number the final total minus that
\* last_total_brews, less the totals that first-run initializations in the run adopted
\* as baseline; without a first-run initialization, exactly the final total minus that
\* last_total_brews.
C2_AddedIsFinalMinusBaselineAndAdopted ==
    (seq.active /\ seq.first >= seq.base)
        => /\ seq.added = seq.last - seq.base - seq.adopted
           /\ last_total_brews = seq.last

\* a run of three calls that started at a baseline of 0 and adopted nothing has appended
\* two brew records and reached a total of 2
C2_Witness ==
    /\ seq.active /\ seq.calls = 3
    /\ seq.base = 0 /\ seq.adopted = 0
    /\ seq.added = 2 /\ seq.last = 2
    /\ Len(brew_history) = 2

----------------------------------------------------------------------------
(* The water reset and the storage *)

\* the baselines a reset is tried with
TriedBaselines == ResetBaselines \cup WaterTotals

\* C11: async_reset_water_tracking changes only the water log and last_total_water: the
\* brew log, the tally and last_total_brews are in memory what they were before the call,
\* and the document the call persists holds those same values; a call that persists
\* nothing leaves the stored document as it was.
C11_ResetFrame ==
    \A b \in TriedBaselines : \A save_ok \in BOOLEAN :
        LET r == async_reset_water_tracking(Self, store, b, save_ok, now)
            written == data_loaded /\ save_ok
        IN  /\ r.self.brew_history = brew_history
            /\ r.self.profile_usage = profile_usage
            /\ r.self.last_total_brews = last_total_brews
            /\ r.self.data_loaded = data_loaded
            /\ written => /\ r.store # <<>>
                          /\ r.store[1].brew_history = brew_history
                          /\ r.store[1].profile_usage = profile_usage
                          /\ r.store[1].last_total_brews = last_total_brews
            /\ ~written => r.store = store

\* a reset has just run on an engine with brew records and a tally: the brew side is in
\* memory and in the stored document, the water log is empty in both
C11_Witness ==
    /\ last_call.op = "reset"
    /\ brew_history # <<>> /\ profile_usage # <<>> /\ last_total_brews > 0
    /\ water_usage_history = <<>>
    /\ store # <<>>
    /\ store[1].brew_history = brew_history
    /\ store[1].profile_usage = profile_usage
    /\ store[1].last_total_brews = last_total_brews
    /\ store[1].water_usage_history = <<>>

----------------------------------------------------------------------------
(* SpecStore: the engine over a storage that may fail to load, fail to save, and hold a
   document that was damaged outside the program *)

\* documents that are not of the expected shape: no object at all; an object whose brew
\* log or water log is null; an object without any of the expected keys
MalformedDocs ==
    { PyList,
      [ brew_history |-> PyNone, water_usage_history |-> <<>>, profile_usage |-> <<>>,
        last_total_brews |-> 2, last_total_water |-> 5000, last_updated |-> IsoFormat(0) ],
      [ brew_history |-> <<>>, water_usage_history |-> PyNone, profile_usage |-> <<>>,
        last_total_brews |-> 0, last_total_water |-> 5000, last_updated |-> IsoFormat(0) ],
      [ last_updated |-> IsoFormat(0) ] }

\* the snapshots of these runs: no brew or one, no water or 5000 ml
StoreConfigs ==
    { [totalBrewingCycles |-> b, totalWaterVolumeL |-> w] : b \in {0, 1}, w \in {0, 5000} }

EnvStore ==
    [ configs |-> StoreConfigs, timings |-> {NoTiming}, profile_lists |-> {<<ProfileBold>>},
      load_outcomes |-> BOOLEAN, save_outcomes |-> BOOLEAN, baselines |-> {0, 5000},
      instants |-> Instants ]

StoreUpdate == UpdateStep(EnvStore) /\ UNCHANGED <<wtrack, seq, poll, tasks, coordinator>>

StoreReset == ResetStep(EnvStore) /\ UNCHANGED <<wtrack, seq, poll, tasks, coordinator>>

StoreTick == TickStep(EnvStore) /\ UNCHANGED <<wtrack, seq, poll, tasks, coordinator>>

StoreRestart == RestartStep /\ UNCHANGED <<wtrack, seq, poll, tasks, coordinator>>

\* the stored document is damaged while no engine has it loaded
StoreDamaged ==
    /\ ~data_loaded
    /\ store \notin { <<doc>> : doc \in MalformedDocs }
    /\ \E doc \in MalformedDocs : store' = <<doc>>
    /\ last_call' = [op |-> "damage"]
    /\ UNCHANGED <<brew_history, water_usage_history, profile_usage, last_total_brews,
                   last_total_water, data_loaded, now, wtrack, seq, poll, tasks, coordinator>>

NextStore == StoreUpdate \/ StoreReset \/ StoreTick \/ StoreRestart \/ StoreDamaged

SpecStore == Init /\ [][NextStore]_vars

\* the stored document is not of the expected shape
Malformed(st) ==
    /\ st # <<>>
    /\ \/ ~IsDict(st[1])
       \/ ~HasLen(DictGet(st[1], "brew_history", <<>>))
       \/ ~HasLen(DictGet(st[1], "water_usage_history", <<>>))

\* both logs and the tally are empty, both baselines are 0, and the history counts as loaded
EmptyLoaded(self) ==
    /\ self.brew_history = <<>> /\ self.water_usage_history = <<>> /\ self.profile_usage = <<>>
    /\ self.last_total_brews = 0 /\ self.last_total_water = 0
    /\ self.data_loaded

\* C12: when the store raises or the stored document is not of the expected shape,
\* async_load_history on a newly constructed engine leaves it with empty logs, an empty
\* tally, both baselines 0 and _data_loaded true.
C12_MalformedLoadLeavesEmptyEngine ==
    \A load_ok \in BOOLEAN :
        (~load_ok \/ Malformed(store))
            => EmptyLoaded(async_load_history(NewManager, store, load_ok))

\* the snapshots a call is tried with in these runs
StoreSnapshots == { <<cc, <<ProfileBold>> >> : cc \in StoreConfigs }

StoredIs(st, self) ==
    /\ st # <<>>
    /\ IsDict(st[1])
    /\ DictGet(st[1], "brew_history", PyNone) = self.brew_history
    /\ DictGet(st[1], "water_usage_history", PyNone) = self.water_usage_history
    /\ DictGet(st[1], "profile_usage", PyNone) = self.profile_usage
    /\ DictGet(st[1], "last_total_brews", -1) = self.last_total_brews
    /\ DictGet(st[1], "last_total_water", -1) = self.last_total_water

\* C14: when async_update_data or async_reset_water_tracking has written to the store and
\* the write did not fail, the stored document's brew_history, water_usage_history,
\* profile_usage, last_total_brews and last_total_water are the engine's values when the
\* call returns.  An update writes when first-run initialization or a detection fired, a
\* reset when the history is loaded.
C14_StoredEqualsMemoryAfterSave ==
    /\ \A snapshot \in StoreSnapshots : \A load_ok \in LoadOutcomes :
          LET r == async_update_data(Self, store, snapshot[1], snapshot[2], now, load_ok, TRUE)
          IN  r.data_changed => StoredIs(r.store, r.self)
    /\ \A b \in TriedBaselines :
          LET r == async_reset_water_tracking(Self, store, b, TRUE, now)
          IN  data_loaded => StoredIs(r.store, r.self)

\* an update has appended a record on day 8 to an engine that holds brew and water
\* records, and the document stored on day 8 holds the engine's five fields
C14_Witness ==
    /\ last_call.op = "update"
    /\ last_call.new_brews + last_call.new_water > 0
    /\ brew_history # <<>> /\ water_usage_history # <<>>
    /\ now = 8
    /\ StoredIs(store, Self)
    /\ store[1].last_updated = IsoFormat(8)


----------------------------------------------------------------------------
(* The poll: coordinator._async_update_data, coordinator._fetch and the client's       *)
(* requests.  An exception is modelled by the name of its class.  The client raises    *)
(* the built-in Exception for every failure; the coordinator also catches              *)
(* FellowAuthError, a class the client module does not define.  fetch_device is the    *)
(* device re-fetch, FellowAiden.__device.                                              *)

\* Retry(total=3, ...) of the session's HTTPAdapter
RetryTotal == 3

\* status_forcelist=[408, 500, 501, 502, 503, 504] applies to the idempotent methods
\* only; a connection that cannot be opened is retried for every method
AdapterRetries(method, answer) ==
    \/ answer = "neterr"
    \/ answer = "retryable" /\ method = "get"

\* what the server can answer to a GET: a good body, a body of the wrong shape, 401,
\* another status outside 2xx, a status of the force list, no connection
CommonAnswers == {"bad_body", "unauthorized", "rejected", "retryable", "neterr"}

\* a device with its displayName, or one without
DeviceAnswers == CommonAnswers \cup {"ok", "ok_unnamed"}

\* a list of profile dicts, or a list holding an entry that is no dict
ProfilesAnswers == CommonAnswers \cup {"ok", "ok_bad_entry"}

SchedulesAnswers == CommonAnswers \cup {"ok"}

\* the answer to a POST that creates: a body with the new id, or one without
CreateAnswers == CommonAnswers \cup {"ok"}

AnswersTo(req) ==
    CASE req \in {"device", "refresh"} -> DeviceAnswers
      [] req = "profiles" -> ProfilesAnswers
      [] req = "schedules" -> SchedulesAnswers
      [] OTHER -> CreateAnswers

\* what the login endpoint can answer: both tokens, a 2xx body without them,
\* 400/401/403, another status outside 2xx, no connection
LoginAnswers == {"tokens", "no_tokens", "denied", "rejected", "retryable", "neterr"}

\* the class __auth raises when the login is refused
AuthRefused == "Exception"

\* the class _ensure_success and the payload checks raise
ClientError == "Exception"

\* the class requests raises when the adapter's retries are used up
TransportError == "Exception"

\* the except clauses around self.api.fetch_device() in _fetch; the other requests
\* of _fetch are outside the try
FetchCatch(req, kind) ==
    IF req # "device" THEN kind
    ELSE IF kind = "FellowAuthError" THEN "ConfigEntryAuthFailed"
    ELSE "UpdateFailed"

\* _async_update_data without its last except clause
UpdateCatch_NoCatchAll(kind) ==
    kind

\* the except clauses of _async_update_data
UpdateCatch(kind) ==
    IF kind = "UpdateFailed" THEN "UpdateFailed"
    ELSE IF kind = "ConfigEntryAuthFailed" THEN "ConfigEntryAuthFailed"
    ELSE "UpdateFailed"

\* a service handler that reports every failure as HomeAssistantError
HandlerCatch_NoValueErrorBranch(kind) ==
    "HomeAssistantError"

\* the except clauses of handle_create_profile and of handle_create_schedule around
\* the coordinator's call, which logs and re-raises what the client raised
HandlerCatch(kind) ==
    IF kind = "ValueError" THEN "ServiceValidationError" ELSE "HomeAssistantError"

\* an exception of class kind leaves the poll, or the service call
Fail(p, kind) ==
    [p EXCEPT !.pc = "done",
              !.outcome = IF p.op = "poll" THEN UpdateCatch(FetchCatch(p.req, kind))
                          ELSE HandlerCatch(kind)]

\* create_profile and create_schedule POST, the fetches GET
Method(req) ==
    IF req \in {"create_profile", "create_schedule"} THEN "post" ELSE "get"

\* the client starts an API request: _request_with_reauth is entered
StartRequest(p, req) ==
    [p EXCEPT !.pc = "send", !.req = req, !.call = 1, !.sends = 0, !.req_sends = 0,
              !.auths = 0, !.login_sends = 0]

\* a _fetch that returns its result whether or not the device has a name
CheckComplete_NameOptional(p) ==
    [p EXCEPT !.pc = "history"]

\* _fetch after the schedules: "if not brewer_name or not device_config"
CheckComplete(p) ==
    IF ~p.name THEN Fail(p, "UpdateFailed") ELSE [p EXCEPT !.pc = "history"]

\* the request was answered with a usable body: _fetch goes on
RequestDone(p, answer) ==
    CASE p.req = "device" -> StartRequest([p EXCEPT !.name = (answer = "ok")], "profiles")
      [] p.req = "profiles" ->
            StartRequest([p EXCEPT !.profiles_ok = (answer = "ok")], "schedules")
      [] p.req = "schedules" -> CheckComplete(p)
      [] p.req \in {"create_profile", "create_schedule"} -> StartRequest(p, "refresh")
      [] OTHER -> [p EXCEPT !.pc = "done", !.outcome = "created"]

\* a request that re-authenticates after every 401
Transmit_ReauthLoop(p, answer) ==
    LET q == [p EXCEPT !.sends = @ + 1, !.req_sends = @ + 1] IN
    IF AdapterRetries(Method(p.req), answer)
    THEN IF q.sends <= RetryTotal THEN q ELSE Fail(q, TransportError)
    ELSE IF answer = "unauthorized"
    THEN [q EXCEPT !.pc = "auth", !.auths = @ + 1, !.login_sends = 0]
    ELSE IF answer \in {"rejected", "retryable", "bad_body"} THEN Fail(q, ClientError)
    ELSE RequestDone(q, answer)

\* one transmission of the current session.request call and what follows from its
\* answer: the adapter sends again, or the call raises, or the response goes to
\* _request_with_reauth and from there to the caller
Transmit(p, answer) ==
    LET q == [p EXCEPT !.sends = @ + 1, !.req_sends = @ + 1] IN
    IF AdapterRetries(Method(p.req), answer)
    THEN IF q.sends <= RetryTotal THEN q ELSE Fail(q, TransportError)
    ELSE IF answer = "unauthorized" /\ p.call = 1
    THEN [q EXCEPT !.pc = "auth", !.auths = @ + 1, !.login_sends = 0]
    ELSE IF answer \in {"unauthorized", "rejected", "retryable", "bad_body"}
    THEN Fail(q, ClientError)
    ELSE RequestDone(q, answer)

\* one transmission of the login POST of __auth(fetch_device=False)
Login(p, answer) ==
    LET q == [p EXCEPT !.login_sends = @ + 1] IN
    IF AdapterRetries("post", answer)
    THEN IF q.login_sends <= RetryTotal THEN q ELSE Fail(q, TransportError)
    ELSE IF answer = "denied" THEN Fail([q EXCEPT !.denied = TRUE], AuthRefused)
    ELSE IF answer \in {"rejected", "retryable", "no_tokens"} THEN Fail(q, ClientError)
    ELSE [q EXCEPT !.pc = "send", !.call = 2, !.sends = 0]

----------------------------------------------------------------------------
(* SpecPoll: the scheduler polls again and again; the server answers as it likes       *)

PollConfigs ==
    { [totalBrewingCycles |-> b, totalWaterVolumeL |-> 5000] : b \in {0, 1} }

EnvPoll ==
    [ configs |-> PollConfigs, timings |-> {NoTiming}, profile_lists |-> {<<ProfileBold>>},
      load_outcomes |-> {TRUE}, save_outcomes |-> {TRUE}, baselines |-> {0},
      instants |-> {0} ]

Engine ==
    <<brew_history, water_usage_history, profile_usage, last_total_brews,
      last_total_water, data_loaded, store, now, last_call>>

\* the scheduler calls _async_update_data; self.api is set, _fetch starts with the device
PollBegin ==
    /\ poll.pc \in {"idle", "done"}
    /\ poll' = StartRequest([NoPoll EXCEPT !.op = "poll"], "device")
    /\ UNCHANGED <<Engine, wtrack, seq, tasks, coordinator>>

\* the session transmits the current request and the server answers
PollTransmit ==
    /\ poll.pc = "send"
    /\ \E answer \in AnswersTo(poll.req) : poll' = Transmit(poll, answer)
    /\ UNCHANGED <<Engine, wtrack, seq, tasks, coordinator>>

\* the session transmits the login and the server answers
PollLogin ==
    /\ poll.pc = "auth"
    /\ \E answer \in LoginAnswers : poll' = Login(poll, answer)
    /\ UNCHANGED <<Engine, wtrack, seq, tasks, coordinator>>

\* history_manager.async_update_data(device_config, profiles) and the return of the
\* data.  With a profile entry that is no dict, the update raises AttributeError at
\* the profile lookup of the first new brew, after the load and before any record.
PollHistory ==
    /\ poll.pc = "history"
    /\ \E cc \in EnvPoll.configs :
         LET s0 == Hydrated(Self, store, TRUE)
             raises == /\ ~poll.profiles_ok
                       /\ BrewDetected(DictGet(cc, "totalBrewingCycles", 0),
                                       InitBaselines(s0, DictGet(cc, "totalBrewingCycles", 0),
                                                     DictGet(cc, "totalWaterVolumeL", 0)))
         IN  IF raises
             THEN /\ SetSelf(s0)
                  /\ UNCHANGED <<store, now>>
                  /\ last_call' = [op |-> "update_raised"]
                  /\ poll' = Fail(poll, "AttributeError")
             ELSE /\ UpdateStep([EnvPoll EXCEPT !.configs = {cc}])
                  /\ poll' = [poll EXCEPT !.pc = "done", !.outcome = "success"]
    /\ UNCHANGED <<wtrack, seq, tasks, coordinator>>

\* the create_profile and create_schedule services: the handler builds the payload,
\* the coordinator hands it to the client, the client validates it against its model
\* and raises ValueError when it does not fit, and POSTs it when it does; after the
\* POST the client fetches the device again
ServiceCreate ==
    /\ poll.pc \in {"idle", "done"}
    /\ \E op \in {"create_profile", "create_schedule"} :
       \E valid \in BOOLEAN :
            LET p == [NoPoll EXCEPT !.op = op, !.valid = valid] IN
            poll' = IF valid THEN StartRequest(p, op) ELSE Fail(p, "ValueError")
    /\ UNCHANGED <<Engine, wtrack, seq, tasks, coordinator>>

NextPoll == PollBegin \/ PollTransmit \/ PollLogin \/ PollHistory \/ ServiceCreate

SpecPoll == Init /\ [][NextPoll]_vars

----------------------------------------------------------------------------
(* Claims about the poll *)

\* the poll has ended
PollEnded == poll.op = "poll" /\ poll.pc = "done"

\* C15: a poll whose device fetch was answered 401 and whose one re-authentication was
\* refused ends as ConfigEntryAuthFailed, not as UpdateFailed
C15_RefusedReauthIsFatal ==
    (PollEnded /\ poll.req = "device" /\ poll.denied)
        => poll.outcome = "ConfigEntryAuthFailed"

\* the three ways _async_update_data may end
Outcomes == {"success", "UpdateFailed", "ConfigEntryAuthFailed"}

\* C17: every call of _async_update_data ends as a return of the data, as UpdateFailed
\* or as ConfigEntryAuthFailed; no other exception of the fetch or of the history update
\* leaves it, and a call that has not ended can go on
C17_ThreeOutcomes ==
    /\ PollEnded => poll.outcome \in Outcomes
    /\ (poll.op = "poll" /\ ~PollEnded) => poll.outcome = "none"
    /\ (poll.op = "poll" /\ poll.pc \in {"send", "auth", "history"}) => ENABLED NextPoll

\* a poll whose history update raised has ended as UpdateFailed
C17_Witness ==
    /\ PollEnded
    /\ last_call.op = "update_raised"
    /\ poll.outcome = "UpdateFailed"

\* the transmissions one session.request call can make
MaxSends == RetryTotal + 1

\* how many more steps the poll can take at most: the transmissions left in the
\* current request and its login, the requests after it, and the history update
Rank(p) ==
    LET after == CASE p.req = "device" -> 2 [] p.req = "profiles" -> 1 [] OTHER -> 0
        left == IF p.pc = "auth" THEN (MaxSends - p.login_sends) + MaxSends
                ELSE IF p.call = 1 THEN (MaxSends - p.sends) + 2 * MaxSends
                ELSE MaxSends - p.sends
    IN  CASE p.pc \in {"idle", "done"} -> 0
          [] p.pc = "history" -> 1
          [] OTHER -> 1 + after * 3 * MaxSends + left

CreateCall == poll.op \in {"create_profile", "create_schedule"}

\* C18: a create_profile or create_schedule call whose payload does not pass the
\* model validation ends as ServiceValidationError without any request or login having
\* been sent; a call whose payload passes and which fails afterwards ends as
\* HomeAssistantError
C18_InvalidPayloadRejectedUnsent ==
    /\ (CreateCall /\ ~poll.valid)
         => /\ poll.pc = "done"
            /\ poll.outcome = "ServiceValidationError"
            /\ poll.req = "none"
            /\ poll.req_sends = 0 /\ poll.login_sends = 0 /\ poll.auths = 0
    /\ (CreateCall /\ poll.valid /\ poll.pc = "done")
         => poll.outcome \in {"created", "HomeAssistantError"}

\* a create call with an invalid payload has been rejected
C18_Witness ==
    /\ CreateCall
    /\ ~poll.valid
    /\ poll.outcome = "ServiceValidationError"

\* C19: an update whose totals are both at or below the baselines, on an engine that
\* is not in first-run state, appends nothing, writes nothing and leaves both logs,
\* the tally and both baselines as they were; no update lowers a baseline; and a
\* counter at or below its baseline creates no record of its kind, whatever the other
\* counter does.  The baselines are those the update works with, after its load.
C19_NoChangeFrame ==
    \A snapshot \in CounterSnapshots : \A load_ok \in LoadOutcomes :
        LET s0 == Hydrated(Self, store, load_ok)
            r == UpdateNow(snapshot, load_ok)
            brews_low == TotalBrews(snapshot) <= s0.last_total_brews
            water_low == TotalWater(snapshot) <= s0.last_total_water
        IN  /\ (~FreshState(s0) /\ brews_low /\ water_low)
                  => /\ r.self = s0
                     /\ r.store = store
                     /\ r.brews_appended = <<>> /\ r.water_appended = <<>>
            /\ r.self.last_total_brews >= s0.last_total_brews
            /\ r.self.last_total_water >= s0.last_total_water
            /\ brews_low => /\ r.brews_appended = <<>>
                            /\ r.self.last_total_brews = s0.last_total_brews
            /\ water_low => /\ r.water_appended = <<>>
                            /\ r.self.last_total_water = s0.last_total_water

\* the last call was an update, no first run, that appended nothing, so its totals were
\* not above the baselines; a total below the water baseline and one above it can follow
C19_Witness ==
    /\ last_call.op = "update"
    /\ ~last_call.first_run
    /\ last_call.new_brews = 0 /\ last_call.new_water = 0
    /\ water_usage_history # <<>>
    /\ \E lower, higher \in WaterTotals : lower < last_total_water /\ last_total_water < higher

----------------------------------------------------------------------------
(* SpecTiming: updates whose snapshots report the start and the end of the last brew   *)

TimingConfigs ==
    { [totalBrewingCycles |-> b, totalWaterVolumeL |-> w] : b \in 0..MaxBrews, w \in {5000, 5200} }

EnvTiming ==
    [ configs |-> TimingConfigs, timings |-> TimingPairs, profile_lists |-> {<<ProfileBold>>},
      load_outcomes |-> {TRUE}, save_outcomes |-> {TRUE}, baselines |-> {0},
      instants |-> Instants ]

TimingUpdate == UpdateStep(EnvTiming) /\ UNCHANGED <<wtrack, seq, poll, tasks, coordinator>>

TimingTick == TickStep(EnvTiming) /\ UNCHANGED <<wtrack, seq, poll, tasks, coordinator>>

TimingRestart == RestartStep /\ UNCHANGED <<wtrack, seq, poll, tasks, coordinator>>

NextTiming == TimingUpdate \/ TimingTick \/ TimingRestart

SpecTiming == Init /\ [][NextTiming]_vars

\* the record has the field
Has(rec, field) == field \in DOMAIN rec

\* both values are there and parse as integers above 0, the start below the end
ParsePositiveOrdered(tp) ==
    /\ tp[1] # <<>> /\ tp[2] # <<>>
    /\ ParseInt(tp[1]) # <<>> /\ ParseInt(tp[2]) # <<>>
    /\ IntPositive(ParseInt(tp[1])[1]) /\ IntPositive(ParseInt(tp[2])[1])
    /\ IntLess(ParseInt(tp[1])[1], ParseInt(tp[2])[1])

\* both values are timestamps a datetime can hold
Convertible(tp) ==
    /\ ~IntLess(DATETIME_MAX, ParseInt(tp[1])[1])
    /\ ~IntLess(DATETIME_MAX, ParseInt(tp[2])[1])

\* the brew records an update with the snapshot of these counters and times would append now
TimedRecords(cc, tp) ==
    Range(UpdateNow(<<WithTiming(cc, tp), <<ProfileBold>> >>, TRUE).brews_appended)

\* the three timing fields are in the record together or not at all, and a duration
\* is above 0
TimingWhole(rec) ==
    /\ Has(rec, "start_time") <=> Has(rec, "end_time")
    /\ Has(rec, "start_time") <=> Has(rec, "duration_seconds")
    /\ Has(rec, "duration_seconds") => rec.duration_seconds > 0

\* C20 as stated: a brew record has the timing fields exactly when brewStartTime and
\* brewEndTime both parse as integers above 0 with the start below the end
C20_TimingIffParsePositiveOrdered ==
    \A cc \in TimingConfigs : \A tp \in TimingPairs :
        \A rec \in TimedRecords(cc, tp) :
            Has(rec, "duration_seconds") <=> ParsePositiveOrdered(tp)

\* C20, amended: a brew record has the timing fields exactly when both values parse as
\* integers above 0 with the start below the end and neither is beyond the last second
\* a datetime can hold; the duration is then the end minus the start; and every record
\* of the log has the three fields together or none of them
C20_TimingIffParsePositiveOrderedConvertible ==
    /\ \A cc \in TimingConfigs : \A tp \in TimingPairs :
         \A rec \in TimedRecords(cc, tp) :
            /\ Has(rec, "duration_seconds") <=> (ParsePositiveOrdered(tp) /\ Convertible(tp))
            /\ Has(rec, "duration_seconds")
                 => /\ rec.duration_seconds
                         = DigitsValue(ParseInt(tp[2])[1]) - DigitsValue(ParseInt(tp[1])[1])
                    /\ rec.start_time = [epoch |-> DigitsValue(ParseInt(tp[1])[1])]
                    /\ rec.end_time = [epoch |-> DigitsValue(ParseInt(tp[2])[1])]
            /\ TimingWhole(rec)
    /\ \A i \in 1..Len(brew_history) : TimingWhole(brew_history[i])

\* the log holds a brew of 60 seconds and a brew without timing fields, and the last
\* update appended a record
C20_Witness ==
    /\ last_call.op = "update"
    /\ last_call.new_brews > 0
    /\ \E i \in 1..Len(brew_history) :
         /\ Has(brew_history[i], "duration_seconds")
         /\ brew_history[i].duration_seconds = 60
    /\ \E i \in 1..Len(brew_history) : ~Has(brew_history[i], "start_time")

----------------------------------------------------------------------------
(* Malformed brew times: the try block of the update and the brew time sensors *)

MIN_VALID_YEAR == 2023

\* the first second of MIN_VALID_YEAR in UTC: brew_datetime.year < MIN_VALID_YEAR
\* is epoch < MinValidYearStart
MinValidYearStart == 1672531200

\* a brew time of November 2023, in seconds
Str2023 == <<"1", "7", "0", "0", "0", "0", "0", "0", "0", "0">>

\* an except clause that names TypeError only
TimingCaught_TypeErrorOnly == {"TypeError"}

\* except (ValueError, TypeError) of the timing block
TimingCaught == {"ValueError", "TypeError"}

\* the class of the exception the statements of the timing block raise for these two
\* values, "none" when they run through
TimingError(brew_start_time, brew_end_time) ==
    IF brew_start_time = <<>> \/ brew_end_time = <<>> THEN "none"
    ELSE LET start_ts == ParseInt(brew_start_time)
             end_ts == ParseInt(brew_end_time)
         IN  IF start_ts = <<>> \/ end_ts = <<>> THEN "ValueError"
             ELSE IF /\ IntPositive(start_ts[1]) /\ IntPositive(end_ts[1])
                     /\ IntLess(start_ts[1], end_ts[1])
                     /\ \/ utc_from_timestamp(start_ts[1]) = <<>>
                        \/ utc_from_timestamp(end_ts[1]) = <<>>
             THEN "ValueError"
             ELSE "none"

\* the exception that leaves the timing block and with it async_update_data
TimingEscapes(brew_start_time, brew_end_time) ==
    LET error == TimingError(brew_start_time, brew_end_time) IN
    IF error \in TimingCaught THEN "none" ELSE error

\* native_value of the brew start and brew end sensors: <<datetime>>, or <<>> for None
BrewTimeSensorValue(device_config, key) ==
    LET timestamp_str == DictGet(device_config, key, <<>>) IN
    IF timestamp_str = <<>> \/ timestamp_str = Str0 THEN <<>>
    ELSE LET timestamp_int == ParseInt(timestamp_str) IN
         IF timestamp_int = <<>> THEN <<>>
         ELSE IF ~IntPositive(timestamp_int[1]) THEN <<>>
         ELSE LET brew_datetime == utc_from_timestamp(timestamp_int[1]) IN
              IF brew_datetime = <<>> THEN <<>>
              ELSE IF brew_datetime[1].epoch < MinValidYearStart THEN <<>>
              ELSE brew_datetime

\* the value is there and does not parse, or is zero
Unusable(v) == v # <<>> /\ (ParseInt(v) = <<>> \/ ~IntPositive(ParseInt(v)[1]))

\* the value is a time before MIN_VALID_YEAR
Implausible(v) ==
    /\ v # <<>> /\ ~Unusable(v)
    /\ utc_from_timestamp(ParseInt(v)[1]) # <<>>
    /\ utc_from_timestamp(ParseInt(v)[1])[1].epoch < MinValidYearStart

\* the snapshots' pairs of which a value is unparseable, zero or implausible
MalformedTimings ==
    { tp \in TimingPairs : \E i \in 1..2 : Unusable(tp[i]) \/ Implausible(tp[i]) }

\* the brew times a sensor may be asked to show
SensorTimes == {Str0, StrAbc, Str100, Str160, Str2023, StrMs}

----------------------------------------------------------------------------
(* The queries of the engine *)

MIN_HISTORICAL_DATA_FOR_ACCURACY == 2

\* the hour at which daylight saving time ends in the local zone of these runs
FallBack == 1

\* the offset of local time from UTC at an instant, in hours
UtcOffset(t) == IF t < FallBack THEN 2 ELSE 1

\* the text of isoformat() of a local time, as the comparison of strings reads it:
\* the wall clock reading first, then the offset; "" comes before every text
IsoText(timestamp_str) ==
    IF "iso" \in DOMAIN timestamp_str
    THEN <<timestamp_str.iso + UtcOffset(timestamp_str.iso), UtcOffset(timestamp_str.iso)>>
    ELSE <<-1, 0>>

\* a < b for two such texts
TextLess(a, b) == a[1] < b[1] \/ (a[1] = b[1] /\ a[2] < b[2])

\* the instants of the records whose timestamp parses, in the order of the log
ParsedTimestamps(log) ==
    LET parses(record) == /\ Has(record, "timestamp")
                          /\ FromIsoFormat(record.timestamp) # <<>>
        kept == SelectSeq(log, parses)
    IN  [ i \in 1..Len(kept) |-> FromIsoFormat(kept[i].timestamp)[1] ]

\* sum of a sequence of numbers
RECURSIVE SumSeq(_)
SumSeq(s) == IF s = <<>> THEN 0 ELSE s[1] + SumSeq(Tail(s))

\* an average that also counts the gaps of length 0
get_average_time_between_brews_AllGaps(self) ==
    IF Len(self.brew_history) < MIN_HISTORICAL_DATA_FOR_ACCURACY THEN <<>>
    ELSE LET timestamps == SortSeq(ParsedTimestamps(self.brew_history), <)
             intervals == [ i \in 1..(Len(timestamps) - 1) |-> timestamps[i + 1] - timestamps[i] ]
         IN  IF Len(timestamps) < MIN_HISTORICAL_DATA_FOR_ACCURACY THEN <<>>
             ELSE IF Len(intervals) > 0
                  THEN <<(20 * SumSeq(intervals) + Len(intervals)) \div (2 * Len(intervals))>>
                  ELSE <<>>

\* get_average_time_between_brews, in tenths of an hour: <<>> for None
get_average_time_between_brews(self) ==
    IF Len(self.brew_history) < MIN_HISTORICAL_DATA_FOR_ACCURACY THEN <<>>
    ELSE LET timestamps == SortSeq(ParsedTimestamps(self.brew_history), <)
             all == [ i \in 1..(Len(timestamps) - 1) |-> timestamps[i + 1] - timestamps[i] ]
             intervals == SelectSeq(all, LAMBDA interval : interval > 0)
         IN  IF Len(timestamps) < MIN_HISTORICAL_DATA_FOR_ACCURACY THEN <<>>
             ELSE IF Len(intervals) > 0
                  THEN <<(20 * SumSeq(intervals) + Len(intervals)) \div (2 * Len(intervals))>>
                  ELSE <<>>

\* get_average_brew_duration, in tenths of a minute: <<>> for None
get_average_brew_duration(self) ==
    LET timed == SelectSeq(self.brew_history,
                           LAMBDA record : DictGet(record, "duration_seconds", 0) > 0)
        durations == [ i \in 1..Len(timed) |-> timed[i].duration_seconds ]
    IN  IF Len(durations) > 0
        THEN <<(SumSeq(durations) + 3 * Len(durations)) \div (6 * Len(durations))>>
        ELSE <<>>

\* a query that answers with the first title of the tally
get_most_popular_profile_FirstEntry(self) ==
    IF Len(self.profile_usage) = 0 THEN <<>> ELSE <<self.profile_usage[1][1]>>

\* get_most_popular_profile: max() keeps the first of the entries with the highest count
get_most_popular_profile(self) ==
    LET usage == self.profile_usage IN
    IF Len(usage) = 0 THEN <<>>
    ELSE LET most_used == usage[CHOOSE i \in 1..Len(usage) :
                                   /\ \A j \in 1..Len(usage) : usage[j][2] <= usage[i][2]
                                   /\ \A j \in 1..(i - 1) : usage[j][2] < usage[i][2]]
         IN  <<most_used[1]>>

\* a query that hands out the tally itself
get_profile_usage_stats_NoCopy(self) ==
    [ shared |-> TRUE, items |-> self.profile_usage ]

\* get_profile_usage_stats: a new dict with the items of the tally
get_profile_usage_stats(self) ==
    [ shared |-> FALSE, items |-> self.profile_usage ]

\* get_brew_count_for_period
get_brew_count_for_period(self, days, t) ==
    IF Len(self.brew_history) = 0 THEN 0
    ELSE Len(SelectSeq(self.brew_history,
                       LAMBDA record : is_record_recent(record, t - days)))

\* get_last_brew_time: max() by the text of the timestamp keeps the first of the
\* records with the highest text; <<instant>>, or <<>> for None
get_last_brew_time(self) ==
    LET log == self.brew_history
        key(x) == IsoText(DictGet(x, "timestamp", EmptyStr))
    IN  IF Len(log) = 0 THEN <<>>
        ELSE LET latest_record == log[CHOOSE i \in 1..Len(log) :
                                         /\ \A j \in 1..Len(log) : ~TextLess(key(log[i]), key(log[j]))
                                         /\ \A j \in 1..(i - 1) : TextLess(key(log[j]), key(log[i]))]
             IN  IF Has(latest_record, "timestamp")
                 THEN FromIsoFormat(latest_record.timestamp)
                 ELSE <<>>

QueryNames ==
    { "get_water_usage_for_period", "get_brew_count_for_period",
      "get_average_time_between_brews", "get_average_brew_duration",
      "get_most_popular_profile", "get_profile_usage_stats", "get_last_brew_time" }

\* the periods the sensors ask for
QueryPeriods(name) ==
    IF name \in {"get_water_usage_for_period", "get_brew_count_for_period"} THEN {7, 30} ELSE {0}

\* the answer of a query
Answer(self, name, days, t) ==
    CASE name = "get_water_usage_for_period" -> get_water_usage_for_period(self, days, t)
      [] name = "get_brew_count_for_period" -> get_brew_count_for_period(self, days, t)
      [] name = "get_average_time_between_brews" -> get_average_time_between_brews(self)
      [] name = "get_average_brew_duration" -> get_average_brew_duration(self)
      [] name = "get_most_popular_profile" -> get_most_popular_profile(self)
      [] name = "get_profile_usage_stats" -> get_profile_usage_stats(self)
      [] name = "get_last_brew_time" -> get_last_brew_time(self)

\* a sensor asks the engine
Ask ==
    \E name \in QueryNames :
    \E days \in QueryPeriods(name) :
        /\ last_call' = [ op |-> "ask", name |-> name, days |-> days,
                          result |-> Answer(Self, name, days, now) ]
        /\ UNCHANGED <<brew_history, water_usage_history, profile_usage, last_total_brews,
                       last_total_water, data_loaded, store, now, wtrack, seq, poll, tasks, coordinator>>

\* the caller of get_profile_usage_stats changes the dict it was given; the engine's
\* tally changes with it when the two are one object
CallerEdit ==
    /\ last_call.op = "ask"
    /\ last_call.name = "get_profile_usage_stats"
    /\ LET edited == Append(last_call.result.items, <<"Edited", 1>>) IN
        /\ last_call' = [ op |-> "edit", result |-> [last_call.result EXCEPT !.items = edited] ]
        /\ profile_usage' = IF last_call.result.shared THEN edited ELSE profile_usage
    /\ UNCHANGED <<brew_history, water_usage_history, last_total_brews,
                   last_total_water, data_loaded, store, now, wtrack, seq, poll, tasks, coordinator>>

----------------------------------------------------------------------------
(* SpecQuery: polls that find brews made with different profile lists, a few clock     *)
(* readings apart, and the engine's queries in between.  A step of the clock is an     *)
(* hour in these runs, and daylight saving time ends at FallBack; no record comes      *)
(* near the retention horizon, whichever unit the clock is read in.                    *)

\* the profile lists of these runs: none, a flagged default in second place, no
\* flagged default, a single profile without a title
AttributionLists ==
    { <<>>, <<ProfileLight, ProfileBold>>, <<ProfileLight, ProfileBare>>, <<ProfileBare>> }

QueryConfigs ==
    { [totalBrewingCycles |-> b, totalWaterVolumeL |-> 5000] : b \in {0, 1, 2, 3} }

EnvQuery ==
    [ configs |-> QueryConfigs, timings |-> {<<Str100, Str160>>},
      profile_lists |-> AttributionLists,
      load_outcomes |-> {TRUE}, save_outcomes |-> {TRUE}, baselines |-> {0},
      instants |-> {0, 1, 2} ]

QueryUpdate == UpdateStep(EnvQuery) /\ UNCHANGED <<wtrack, seq, poll, tasks, coordinator>>

QueryTick == TickStep(EnvQuery) /\ UNCHANGED <<wtrack, seq, poll, tasks, coordinator>>

QueryRestart == RestartStep /\ UNCHANGED <<wtrack, seq, poll, tasks, coordinator>>

NextQuery == QueryUpdate \/ QueryTick \/ QueryRestart \/ Ask \/ CallerEdit

SpecQuery == Init /\ [][NextQuery]_vars

\* the snapshots of these runs
QuerySnapshots == { <<cc, pl>> : cc \in QueryConfigs, pl \in AttributionLists }

\* the count the tally holds for the title, 0 when it has no entry
CountOf(usage, title) ==
    IF \E i \in 1..Len(usage) : usage[i][1] = title
    THEN usage[CHOOSE i \in 1..Len(usage) : usage[i][1] = title][2]
    ELSE 0

\* the titles of the tally
TitlesOf(usage) == { usage[i][1] : i \in 1..Len(usage) }

\* the profile a brew is to be attributed to: the flagged one that comes first,
\* the first of the list when none is flagged
Attributed(pl) ==
    IF \E i \in 1..Len(pl) : "isDefaultProfile" \in DOMAIN pl[i] /\ pl[i].isDefaultProfile
    THEN pl[CHOOSE i \in 1..Len(pl) :
              /\ "isDefaultProfile" \in DOMAIN pl[i] /\ pl[i].isDefaultProfile
              /\ \A j \in 1..(i - 1) :
                    ~("isDefaultProfile" \in DOMAIN pl[j] /\ pl[j].isDefaultProfile)]
    ELSE pl[1]

\* the title the tally counts the profile under
TitleOf(profile) == IF "title" \in DOMAIN profile THEN profile.title ELSE "Unknown Profile"

\* C22: every record an update appends is attributed to the flagged default profile of
\* the snapshot's list, to the first profile when none is flagged; the tally of that
\* title grows by the number of records appended and no other entry changes; with an
\* empty list the records have no profile fields and the tally stays as it was
C22_ProfileAttribution ==
    \A snapshot \in QuerySnapshots :
        LET s0 == Hydrated(Self, store, TRUE)
            r == UpdateNow(snapshot, TRUE)
            pl == snapshot[2]
            n == Len(r.brews_appended)
        IN  IF pl = <<>>
            THEN /\ \A rec \in Range(r.brews_appended) :
                        ~Has(rec, "profile_id") /\ ~Has(rec, "profile_title")
                 /\ r.self.profile_usage = s0.profile_usage
            ELSE /\ \A rec \in Range(r.brews_appended) :
                        /\ Has(rec, "profile_id") /\ Has(rec, "profile_title")
                        /\ rec.profile_id = Attributed(pl).id
                        /\ rec.profile_title = TitleOf(Attributed(pl))
                 /\ CountOf(r.self.profile_usage, TitleOf(Attributed(pl)))
                        = CountOf(s0.profile_usage, TitleOf(Attributed(pl))) + n
                 /\ \A title \in TitlesOf(s0.profile_usage) \cup TitlesOf(r.self.profile_usage) :
                        title # TitleOf(Attributed(pl))
                           => CountOf(r.self.profile_usage, title) = CountOf(s0.profile_usage, title)

\* the last update appended two records at once from a list without a flagged profile:
\* both went to its first profile, whose tally is at least 2
C22_Witness ==
    /\ last_call.op = "update"
    /\ last_call.new_brews = 2
    /\ Len(brew_history) >= 2
    /\ DictGet(brew_history[Len(brew_history)], "profile_title", "") = "Light"
    /\ DictGet(brew_history[Len(brew_history) - 1], "profile_title", "") = "Light"
    /\ CountOf(profile_usage, "Light") >= 2

\* C23: get_most_popular_profile answers None exactly when the tally is empty, and
\* otherwise a title of the tally whose count is at least every other count; the
\* answer is the same as long as only queries and clock readings come in between
C23_MostPopularProfile ==
    /\ [](LET answer == get_most_popular_profile(Self) IN
            /\ answer = <<>> <=> profile_usage = <<>>
            /\ answer # <<>> =>
                  /\ answer[1] \in TitlesOf(profile_usage)
                  /\ \A title \in TitlesOf(profile_usage) :
                        CountOf(profile_usage, title) <= CountOf(profile_usage, answer[1]))
    /\ [][last_call'.op \in {"ask", "tick"} =>
             get_most_popular_profile([profile_usage |-> profile_usage'])
                = get_most_popular_profile(Self)]_vars

\* the query was asked while two titles shared the highest count, and answered with
\* the one that entered the tally first
C23_Witness ==
    /\ last_call.op = "ask"
    /\ last_call.name = "get_most_popular_profile"
    /\ Len(profile_usage) = 2
    /\ profile_usage[1][2] = profile_usage[2][2]
    /\ last_call.result = <<profile_usage[1][1]>>

\* the latest instant among the records of a log whose timestamp parses
LatestInstant(log) ==
    LET instants == { ParsedTimestamps(log)[i] : i \in 1..Len(ParsedTimestamps(log)) }
    IN  CHOOSE t \in instants : \A u \in instants : u <= t

\* C24: get_last_brew_time answers with the instant of the record whose timestamp is
\* the latest in time, and with None when the brew log is empty
C24_LastBrewIsLatest ==
    get_last_brew_time(Self) =
        IF brew_history = <<>> THEN <<>> ELSE <<LatestInstant(brew_history)>>

\* C25: a query leaves the logs, the tally, the baselines and the stored document as
\* they are, and so does a change the caller makes to the dict that
\* get_profile_usage_stats returned
C25_QueriesChangeNothing ==
    [][last_call'.op \in {"ask", "edit"} =>
          UNCHANGED <<brew_history, water_usage_history, profile_usage,
                      last_total_brews, last_total_water, store>>]_vars

\* the caller changed the dict it got from get_profile_usage_stats while the tally
\* had entries: the dict now differs from the tally
C25_Witness ==
    /\ last_call.op = "edit"
    /\ profile_usage # <<>>
    /\ store # <<>>
    /\ last_call.result.items # profile_usage

----------------------------------------------------------------------------
(* SpecConc: the coroutines of the event loop.  A poll is suspended while its fetch   *)
(* runs in the executor, while the first update loads the history and while an        *)
(* update's save is written; a reset is suspended while its save is written.  Between *)
(* two awaits a coroutine runs alone.  The scheduler starts a poll when none is in    *)
(* progress; the services are served once the config entry is loaded.                 *)

\* the counters of the device in these runs
ConcConfigs ==
    { [totalBrewingCycles |-> b, totalWaterVolumeL |-> w] : b \in {1, 2}, w \in {5000, 5200, 5400} }

\* the beginnings of a list: what a reader of the list sees when it is cleared under it
Prefixes(list) == { SubSeq(list, 1, k) : k \in 0..Len(list) }

\* The document of a write in flight refers to the lists and the tally of the engine,
\* and the executor serializes it at some moment before the write completes.  The
\* writes in flight after a reset has cleared the water list:
SeenByReset(writes) ==
    [ i \in 1..Len(writes) |->
        IF ~writes[i].live THEN writes[i]
        ELSE [ writes[i] EXCEPT
                 !.docs = @ \cup UNION { { [d EXCEPT !.water_usage_history = p] :
                                               p \in Prefixes(d.water_usage_history) } :
                                           d \in @ } ] ]

\* the writes in flight after an update has counted the profile, appended its records
\* and, if anything changed, replaced both lists by the pruned ones
SeenByUpdate(writes, r) ==
    [ i \in 1..Len(writes) |->
        LET counted(d) == [d EXCEPT !.profile_usage = r.self.profile_usage]
            brewed(d) == [counted(d) EXCEPT !.brew_history = @ \o r.brews_appended]
            watered(d) == [brewed(d) EXCEPT !.water_usage_history = @ \o r.water_appended]
        IN  [ writes[i] EXCEPT
                !.docs = @ \cup { counted(d) : d \in @ }
                           \cup (IF writes[i].live
                                 THEN { brewed(d) : d \in @ } \cup { watered(d) : d \in @ }
                                 ELSE {}),
                !.live = @ /\ ~r.data_changed ] ]

\* self._store.async_save(data) is called: the write joins the writes in flight
Enqueue(writes, by, doc) ==
    Append(writes, [ by |-> by, docs |-> {doc}, live |-> TRUE ])

\* async_update_data from after its load to its save await, or to its return when
\* nothing changed
SyncUpdate(self, device_config) ==
    LET r == async_update_data(self, store, device_config, <<ProfileBold>>, now, TRUE, TRUE)
        seen == SeenByUpdate(tasks.writes, r)
    IN  /\ SetSelf(r.self)
        /\ tasks' = IF r.data_changed
                    THEN [ tasks EXCEPT !.refresh = "save", !.snapshot = <<device_config>>,
                                        !.writes = Enqueue(seen, "update", r.store[1]),
                                        !.tick = r.brews_appended \o r.water_appended ]
                    ELSE [ tasks EXCEPT !.refresh = "idle", !.snapshot = <<>>,
                                        !.data = <<device_config>>, !.loaded = TRUE,
                                        !.writes = seen ]

\* the scheduler or a requested refresh starts _async_update_data
ConcPoll ==
    /\ tasks.refresh = "idle"
    /\ tasks' = [tasks EXCEPT !.refresh = "fetch"]
    /\ last_call' = [op |-> "poll"]
    /\ UNCHANGED <<brew_history, water_usage_history, profile_usage, last_total_brews,
                   last_total_water, data_loaded, store, now, wtrack, seq, poll, coordinator>>

\* the fetch returns: it failed and the poll ends as UpdateFailed, or it brought a
\* snapshot and the update is called
ConcFetched ==
    /\ tasks.refresh = "fetch"
    /\ \/ /\ tasks' = [tasks EXCEPT !.refresh = "idle"]
          /\ last_call' = [op |-> "failed"]
          /\ UNCHANGED <<brew_history, water_usage_history, profile_usage, last_total_brews,
                         last_total_water, data_loaded>>
       \/ \E cc \in ConcConfigs :
            /\ tasks.data # <<>> =>
                  /\ cc.totalWaterVolumeL >= tasks.data[1].totalWaterVolumeL
                  /\ cc.totalBrewingCycles >= tasks.data[1].totalBrewingCycles
            /\ last_call' = [op |-> "fetched"]
            /\ IF data_loaded
               THEN SyncUpdate(Self, cc)
               ELSE /\ tasks' = [tasks EXCEPT !.refresh = "load", !.snapshot = <<cc>>]
                    /\ UNCHANGED <<brew_history, water_usage_history, profile_usage,
                                   last_total_brews, last_total_water, data_loaded>>
    /\ UNCHANGED <<store, now, wtrack, seq, poll, coordinator>>

\* the load of the first update returns, and the update goes on
ConcLoaded ==
    /\ tasks.refresh = "load"
    /\ SyncUpdate(Hydrated(Self, store, TRUE), tasks.snapshot[1])
    /\ last_call' = [op |-> "loaded"]
    /\ UNCHANGED <<store, now, wtrack, seq, poll, coordinator>>

\* handle_reset_water_tracking up to the save await of async_reset_water_tracking
ConcReset ==
    /\ tasks.loaded
    /\ tasks.reset = "idle"
    /\ LET device_config == IF tasks.data = <<>> THEN EmptyDict ELSE tasks.data[1]
           current_total == DictGet(device_config, "totalWaterVolumeL", 0)
           r == async_reset_water_tracking(Self, store, current_total, TRUE, now)
       IN  /\ SetSelf(r.self)
           /\ tasks' = [ tasks EXCEPT !.reset = "save",
                           !.writes = Enqueue(SeenByReset(tasks.writes), "reset", r.store[1]) ]
    /\ last_call' = [op |-> "reset"]
    /\ UNCHANGED <<store, now, wtrack, seq, poll, coordinator>>

\* the oldest write in flight completes and the coroutine that awaits it goes on: the
\* poll returns its data, the reset returns
ConcWritten ==
    /\ tasks.writes # <<>>
    /\ LET write == Head(tasks.writes) IN
       \E doc \in write.docs :
          /\ store' = <<doc>>
          /\ tasks' = IF write.by = "update"
                      THEN [ tasks EXCEPT !.writes = Tail(@), !.refresh = "idle",
                                          !.data = tasks.snapshot, !.snapshot = <<>>,
                                          !.loaded = TRUE, !.tick = <<>> ]
                      ELSE [ tasks EXCEPT !.writes = Tail(@), !.reset = "idle" ]
          /\ last_call' = [op |-> "written", by |-> write.by]
    /\ UNCHANGED <<brew_history, water_usage_history, profile_usage, last_total_brews,
                   last_total_water, data_loaded, now, wtrack, seq, poll, coordinator>>

\* the process stops and is started again: the coroutines and the writes in flight
\* are gone, the storage is what the last completed write left, and a new engine and
\* a new coordinator are set up.  What the engine held when it stopped is kept for
\* comparison.
ConcStop ==
    /\ tasks.stopped = <<>>
    /\ tasks' = [ NoTasks EXCEPT
                    !.stopped = << [ at |-> tasks.refresh, reset |-> tasks.reset,
                                     engine |-> Self, tick |-> tasks.tick ] >> ]
    /\ SetSelf(NewManager)
    /\ last_call' = [op |-> "stop"]
    /\ UNCHANGED <<store, now, wtrack, seq, poll, coordinator>>

NextConc == ConcPoll \/ ConcFetched \/ ConcLoaded \/ ConcReset \/ ConcWritten \/ ConcStop

SpecConc == Init /\ [][NextConc]_vars

\* C26: while async_update_data is suspended at its load or at its save, no reset
\* changes the water log or the water baseline
C26_NoResetWhileUpdateSuspended ==
    [][tasks.refresh \in {"load", "save"} => last_call'.op # "reset"]_vars

----------------------------------------------------------------------------
(* SpecRetain: a history written long ago, with timestamps of every kind, is loaded *)
(* and polled at the retention horizon.  The clock counts days.                     *)

\* a timestamp written without an offset
NaiveIso(t) == [iso |-> t, aware |-> FALSE]

\* a timestamp that datetime.fromisoformat rejects
BadIso == [text |-> "yesterday"]

\* records of an earlier history: stamped on day 0 and on day 1, with and without
\* offset, without a timestamp, with an empty one and with one that does not parse
LegacyBrews ==
    << [timestamp |-> IsoFormat(0), total_brews_at_time |-> 1, total_water_at_time |-> 4000],
       [timestamp |-> NaiveIso(0), total_brews_at_time |-> 2, total_water_at_time |-> 4000],
       [total_brews_at_time |-> 3, total_water_at_time |-> 4000],
       [timestamp |-> NaiveIso(1), total_brews_at_time |-> 4, total_water_at_time |-> 4000],
       [timestamp |-> BadIso, total_brews_at_time |-> 5, total_water_at_time |-> 4000] >>

LegacyWater ==
    << [timestamp |-> EmptyStr, water_used_ml |-> 100, total_water_at_time |-> 4100],
       [timestamp |-> IsoFormat(0), water_used_ml |-> 100, total_water_at_time |-> 4200],
       [timestamp |-> IsoFormat(1), water_used_ml |-> 100, total_water_at_time |-> 4300] >>

LegacyDocs ==
    { [ brew_history |-> LegacyBrews, water_usage_history |-> LegacyWater,
        profile_usage |-> <<>>, last_total_brews |-> 5, last_total_water |-> 5000,
        last_updated |-> IsoFormat(1) ],
      [ brew_history |-> <<>>, water_usage_history |-> LegacyWater,
        profile_usage |-> <<>>, last_total_brews |-> 0, last_total_water |-> 0,
        last_updated |-> NaiveIso(1) ] }

RetainConfigs ==
    { [totalBrewingCycles |-> b, totalWaterVolumeL |-> w] : b \in {5, 6}, w \in {5000, 5200} }

EnvRetain ==
    [ configs |-> RetainConfigs, timings |-> {NoTiming}, profile_lists |-> {<<>>},
      load_outcomes |-> {TRUE}, save_outcomes |-> {TRUE}, baselines |-> {5000},
      instants |-> {0, 1, 365, 366} ]

RetainUpdate == UpdateStep(EnvRetain) /\ UNCHANGED <<wtrack, seq, poll, tasks, coordinator>>

RetainTick == TickStep(EnvRetain) /\ UNCHANGED <<wtrack, seq, poll, tasks, coordinator>>

RetainRestart == RestartStep /\ UNCHANGED <<wtrack, seq, poll, tasks, coordinator>>

RetainReset == ResetStep(EnvRetain) /\ UNCHANGED <<wtrack, seq, poll, tasks, coordinator>>

\* the storage holds a history of an earlier installation
RetainLegacy ==
    /\ ~data_loaded
    /\ store = <<>>
    /\ \E doc \in LegacyDocs : store' = <<doc>>
    /\ last_call' = [op |-> "legacy"]
    /\ UNCHANGED <<brew_history, water_usage_history, profile_usage, last_total_brews,
                   last_total_water, data_loaded, now, wtrack, seq, poll, tasks, coordinator>>

NextRetain == RetainUpdate \/ RetainTick \/ RetainRestart \/ RetainReset \/ RetainLegacy

SpecRetain == Init /\ [][NextRetain]_vars

\* the record has a timestamp that parses, and it is strictly later than the cutoff
StampedAfter(rec, cutoff_date) ==
    /\ Has(rec, "timestamp")
    /\ "iso" \in DOMAIN rec.timestamp
    /\ rec.timestamp.iso > cutoff_date

\* C28: after an update in which brew detection, water detection or first-run
\* initialization fired, every record of either log has a timestamp that parses and
\* is strictly later than now - 365 days, one without offset being read as local time;
\* an update in which none fired prunes nothing and saves nothing
C28_PrunedToTheHorizon ==
    \A cc \in RetainConfigs :
        LET before == Hydrated(Self, store, TRUE)
            r == UpdateNow(<<cc, <<>>>>, TRUE)
        IN  IF r.first_run \/ r.brew_detected \/ r.water_detected
            THEN /\ \A rec \in AllRecords(r.self) :
                        StampedAfter(rec, now - HISTORY_RETENTION_DAYS)
                 /\ \A rec \in Range(before.brew_history) :
                        StampedAfter(rec, now - HISTORY_RETENTION_DAYS)
                           => rec \in Range(r.self.brew_history)
                 /\ \A rec \in Range(before.water_usage_history) :
                        StampedAfter(rec, now - HISTORY_RETENTION_DAYS)
                           => rec \in Range(r.self.water_usage_history)
            ELSE /\ r.self = before
                 /\ r.store = store

\* on day 365 an update has pruned the loaded history: the records of day 1 are left,
\* one of them without offset, and nothing of day 0 or without a usable timestamp
C28_Witness ==
    /\ now = 365
    /\ last_call.op = "update" /\ last_call.pruned >= 4
    /\ \E rec \in Range(brew_history) : rec.timestamp = NaiveIso(1)
    /\ \E rec \in Range(water_usage_history) : rec.timestamp = IsoFormat(1)
    /\ \A rec \in AllRecords(Self) : StampedAfter(rec, 0)

\* the records of the log that the call keeps, in their order: all of them when the
\* call does not prune
Survivors(log, pruned, cutoff_date) ==
    SelectSeq(log, LAMBDA rec : ~pruned \/ StampedAfter(rec, cutoff_date))

\* C29: after an update each log is the previous log's surviving records, unchanged
\* and in their order, followed by the records the call created, which are stamped
\* now; a reset empties the water log and leaves the brew log alone; no other
\* operation of a running process changes a log
C29_RecordsAreImmutable ==
    /\ [](\A cc \in RetainConfigs :
            LET before == Hydrated(Self, store, TRUE)
                r == UpdateNow(<<cc, <<>>>>, TRUE)
                cutoff_date == now - HISTORY_RETENTION_DAYS
            IN  /\ r.self.brew_history
                     = Survivors(before.brew_history, r.data_changed, cutoff_date)
                          \o r.brews_appended
                /\ r.self.water_usage_history
                     = Survivors(before.water_usage_history, r.data_changed, cutoff_date)
                          \o r.water_appended
                /\ \A rec \in Range(r.brews_appended) \cup Range(r.water_appended) :
                      rec.timestamp = IsoFormat(now))
    /\ [][/\ last_call'.op = "reset"
               => water_usage_history' = <<>> /\ brew_history' = brew_history
          /\ last_call'.op \notin {"update", "reset", "restart"}
               => UNCHANGED <<brew_history, water_usage_history>>]_vars

\* on day 365 an update has pruned the loaded history and found a brew and water: each
\* log holds its record of day 1 first and the record of this call after it
C29_Witness ==
    /\ now = 365
    /\ last_call.op = "update" /\ last_call.pruned >= 4
    /\ last_call.new_brews = 1 /\ last_call.new_water = 1
    /\ Len(brew_history) = 2 /\ Len(water_usage_history) = 2
    /\ brew_history[1] = LegacyBrews[4] /\ brew_history[2].timestamp = IsoFormat(365)
    /\ water_usage_history[1] = LegacyWater[3]
    /\ water_usage_history[2].timestamp = IsoFormat(365)

\* C30: when the process has stopped while an update awaited its save, the load of the
\* next start restores the five fields of the document the last completed write left,
\* or the empty engine when no write ever completed; of the records the engine held
\* when it stopped, only those of the interrupted update are not restored
C30_LoadRestoresLastSave ==
    (tasks.stopped # <<>> /\ tasks.stopped[1].at = "save" /\ ~data_loaded) =>
        LET was == tasks.stopped[1]
            loaded == async_load_history(Self, store, TRUE)
        IN  /\ loaded.data_loaded
            /\ store # <<>> => StoredIs(store, loaded)
            /\ store = <<>> => loaded = [NewManager EXCEPT !.data_loaded = TRUE]
            /\ \A rec \in AllRecords(was.engine) :
                  rec \notin AllRecords(loaded) => rec \in Range(was.tick)

\* the process stopped while an update that had appended a brew record and a water record
\* awaited its save, after an earlier update's save with a water record had completed;
\* the next start is about to load
C30_Witness ==
    /\ tasks.stopped # <<>> /\ tasks.stopped[1].at = "save"
    /\ tasks.refresh = "load"
    /\ Len(tasks.stopped[1].tick) = 2
    /\ store # <<>>
    /\ Len(store[1].water_usage_history) = 1
    /\ Len(tasks.stopped[1].engine.water_usage_history) = 2
    /\ Len(tasks.stopped[1].engine.brew_history) = 1
    /\ store[1].last_total_brews = 1
    /\ tasks.stopped[1].engine.last_total_brews = 2

----------------------------------------------------------------------------
(* First-run initialization over the lifetime of one engine (SpecRun) *)

\* the update of this step moved a baseline only together with the records for it
MovedWithRecords ==
    /\ last_total_brews' # last_total_brews
          => last_call'.new_brews = last_total_brews' - last_total_brews
    /\ last_total_water' # last_total_water => last_call'.new_water = 1

\* C31 as stated: once an update has completed on the engine, no later update is a
\* first-run initialization, and every later update moves a baseline only together
\* with appending the records for it
C31_FirstRunAtMostOnce ==
    [][(data_loaded /\ last_call'.op = "update")
          => (~last_call'.first_run /\ MovedWithRecords)]_vars

\* C31, amended: an update on the loaded engine is a first-run initialization exactly
\* when it finds both baselines 0 and both logs empty, which cannot be once the brew
\* baseline is above 0; every other update moves a baseline only together with
\* appending the records for it; the brew baseline never goes down
C31_FirstRunWhileUninitialized ==
    /\ [][(data_loaded /\ last_call'.op = "update")
            => /\ last_call'.first_run <=> FirstRunApplies(Self)
               /\ last_total_brews > 0 => ~last_call'.first_run
               /\ ~last_call'.first_run => MovedWithRecords]_vars
    /\ [][data_loaded => last_total_brews' >= last_total_brews]_vars

\* an update that followed another update was a first-run initialization again and
\* took over a brew total above 0 without a record
C31_Witness ==
    /\ last_call.op = "update"
    /\ last_call.prev = "update"
    /\ last_call.first_run
    /\ last_total_brews > 0
    /\ brew_history = <<>>


\* C32: from a fresh engine, after any sequence of updates and water resets under a clock
\* that does not go back, a non-empty brew log ends with the record whose
\* total_brews_at_time is last_total_brews, and a non-empty water log ends with the record
\* whose total_water_at_time is last_total_water.
C32_LastRecordCarriesBaseline ==
    /\ brew_history # <<>>
          => brew_history[Len(brew_history)].total_brews_at_time = last_total_brews
    /\ water_usage_history # <<>>
          => water_usage_history[Len(water_usage_history)].total_water_at_time
                = last_total_water

\* a reset emptied a water log, and an update has since appended a water record to it
\* while the brew log holds two records
C32_Witness ==
    /\ last_call.op = "update"
    /\ last_call.new_water = 1
    /\ wtrack.base = 5000
    /\ Len(water_usage_history) = 1
    /\ Len(brew_history) = 2

(***************************************************************************)
(* The tally over the lifetime of one engine (SpecTally): updates with and  *)
(* without an attributable profile, water resets, and a clock that carries *)
(* records past the retention horizon.                                     *)
(***************************************************************************)

TallyConfigs ==
    { [totalBrewingCycles |-> b, totalWaterVolumeL |-> w] : b \in {1, 2, 3}, w \in {5000, 5200} }

TallyLists == { <<>>, <<ProfileLight, ProfileBold>>, <<ProfileBare>> }

EnvTally ==
    [ configs |-> TallyConfigs, timings |-> {NoTiming}, profile_lists |-> TallyLists,
      load_outcomes |-> {TRUE}, save_outcomes |-> {TRUE}, baselines |-> {5000},
      instants |-> {0, 1, 366} ]

TallyUpdate == UpdateStep(EnvTally) /\ UNCHANGED <<wtrack, seq, poll, tasks, coordinator>>

TallyReset == ResetStep(EnvTally) /\ UNCHANGED <<wtrack, seq, poll, tasks, coordinator>>

TallyTick == TickStep(EnvTally) /\ UNCHANGED <<wtrack, seq, poll, tasks, coordinator>>

NextTally == TallyUpdate \/ TallyReset \/ TallyTick

SpecTally == Init /\ [][NextTally]_vars

\* the sum of all counts of the tally
TallySum(usage) == SumSeq([ i \in 1..Len(usage) |-> usage[i][2] ])

\* the number of records of the log that carry a profile
AttributedIn(log) == Cardinality({ i \in 1..Len(log) : Has(log[i], "profile_title") })

\* C33: no count of the tally ever goes down, whatever is pruned or reset: every step
\* raises the sum of the counts by the number of attributed records the step created, so
\* the sum is the number of attributed records ever created on the engine, and it is
\* never below the number of attributed records still in the brew log.
C33_TallyCountsEveryAttributedBrew ==
    /\ [](TallySum(profile_usage) >= AttributedIn(brew_history))
    /\ [][/\ \A title \in TitlesOf(profile_usage) :
                 CountOf(profile_usage', title) >= CountOf(profile_usage, title)
          /\ TallySum(profile_usage') = TallySum(profile_usage)
                + (IF last_call'.op = "update"
                   THEN AttributedIn(LastRecords(brew_history', last_call'.new_brews))
                   ELSE 0)]_vars

\* two brews were counted for a profile, the first record has aged out of the log, and
\* water tracking has been reset since
C33_Witness ==
    /\ last_call.op = "reset"
    /\ TallySum(profile_usage) = 2
    /\ AttributedIn(brew_history) = 1
    /\ Len(brew_history) = 1
    /\ now = 366

(***************************************************************************)
(* The average time between brews as a function of the brew log           *)
(* (SpecAverage): the engine is hydrated from a stored history whose brew  *)
(* log is any sequence of up to MaxAverageLog records, stamped at one of   *)
(* four hours with or without offset, not stamped, or stamped with a text  *)
(* that does not parse, in any order; then the query is asked.  No log of  *)
(* these runs has more than three positive gaps, so that no mean lies      *)
(* halfway between two tenths.                                             *)
(***************************************************************************)

MaxAverageLog == 4

AverageStamps ==
    { <<IsoFormat(0)>>, <<IsoFormat(1)>>, <<IsoFormat(2)>>, <<IsoFormat(4)>>,
      <<NaiveIso(1)>>, <<BadIso>>, <<>> }

\* a stored brew record with that timestamp, <<>> for none
StampedRecord(stamp) ==
    IF stamp = <<>> THEN [total_water_at_time |-> 4000]
    ELSE [timestamp |-> stamp[1], total_water_at_time |-> 4000]

AverageLogs ==
    UNION { { [ i \in 1..n |-> StampedRecord(stamps[i]) ] : stamps \in [1..n -> AverageStamps] }
            : n \in 0..MaxAverageLog }

\* a new engine loads a stored history
AverageLoad ==
    /\ ~data_loaded
    /\ \E log \in AverageLogs :
         LET doc == [brew_history |-> log] IN
         /\ store' = <<doc>>
         /\ SetSelf(async_load_history(Self, <<doc>>, TRUE))
    /\ last_call' = [op |-> "load"]
    /\ UNCHANGED <<now, wtrack, seq, poll, tasks, coordinator>>

\* the sensor asks for the average
AverageAsk ==
    /\ data_loaded
    /\ last_call' = [ op |-> "ask", name |-> "get_average_time_between_brews", days |-> 0,
                      result |-> get_average_time_between_brews(Self) ]
    /\ UNCHANGED <<brew_history, water_usage_history, profile_usage, last_total_brews,
                   last_total_water, data_loaded, store, now, wtrack, seq, poll, tasks, coordinator>>

NextAverage == AverageLoad \/ AverageAsk

SpecAverage == Init /\ [][NextAverage]_vars

\* the indices of the records whose timestamp is there and parses
Parseable(log) ==
    { i \in 1..Len(log) : Has(log[i], "timestamp") /\ "iso" \in DOMAIN log[i].timestamp }

\* the instants the log has a record of
InstantsOf(log) == { log[i].timestamp.iso : i \in Parseable(log) }

\* the positive gaps between consecutive timestamps in ascending order are the gaps
\* between neighbouring instants: there is one less than there are instants, and they
\* add up to the time from the earliest instant to the latest
PositiveGaps(log) == Cardinality(InstantsOf(log)) - 1

GapsTotal(log) ==
    (CHOOSE t \in InstantsOf(log) : \A u \in InstantsOf(log) : u <= t)
      - (CHOOSE t \in InstantsOf(log) : \A u \in InstantsOf(log) : t <= u)

\* C34 as stated: None with fewer than 2 parseable timestamps or without a positive gap,
\* otherwise the mean of the positive gaps, in hours (the answer is held in tenths).
C34_AverageIsTheMean ==
    LET result == get_average_time_between_brews(Self) IN
    IF Cardinality(Parseable(brew_history)) < 2 \/ PositiveGaps(brew_history) < 1
    THEN result = <<>>
    ELSE /\ result # <<>>
         /\ result[1] * PositiveGaps(brew_history) = 10 * GapsTotal(brew_history)

\* C34, amended: None with fewer than 2 parseable timestamps or without a positive gap,
\* otherwise the mean of the positive gaps, in hours, rounded to one decimal: the tenth
\* of an hour nearest to the mean.
C34_AverageIsTheRoundedMean ==
    LET result == get_average_time_between_brews(Self) IN
    IF Cardinality(Parseable(brew_history)) < 2 \/ PositiveGaps(brew_history) < 1
    THEN result = <<>>
    ELSE /\ result # <<>>
         /\ 2 * (result[1] * PositiveGaps(brew_history) - 10 * GapsTotal(brew_history))
               <= PositiveGaps(brew_history)
         /\ 2 * (10 * GapsTotal(brew_history) - result[1] * PositiveGaps(brew_history))
               <= PositiveGaps(brew_history)

\* the log is out of order, two of its records share an instant, and the average
\* asked for is 1.3 hours, the mean of the gaps 1, 1 and 2 being 1.333...
C34_Witness ==
    /\ last_call.op = "ask"
    /\ last_call.result = <<13>>
    /\ Len(brew_history) = 4
    /\ brew_history[1].timestamp = IsoFormat(4)
    /\ PositiveGaps(brew_history) = 3

----------------------------------------------------------------------------
(* The engine during a poll whose fetch fails (SpecPoll) *)

\* what the engine holds and what it has persisted
EngineData ==
    <<brew_history, water_usage_history, profile_usage, last_total_brews,
      last_total_water, data_loaded, store>>

\* C35: a poll hands its data to the history engine only after every request of the
\* fetch was answered and the device has a name; every step of the fetch, the ones that
\* end the poll with a failure included, leaves the logs, the tally, the baselines and
\* the persisted document as they were, so a poll whose fetch fails or is incomplete
\* ends with the engine as it found it.
C35_FailedFetchLeavesEngine ==
    /\ [](poll.pc = "history" => (poll.op = "poll" /\ poll.name /\ poll.req = "schedules"))
    /\ [][(poll.op = "poll" /\ poll.pc \in {"send", "auth"})
             => /\ UNCHANGED EngineData
                /\ poll'.pc = "done" => poll'.outcome \in {"UpdateFailed", "ConfigEntryAuthFailed"}]_vars
    /\ [][(poll.pc \in {"idle", "done"}) => UNCHANGED EngineData]_vars

\* an earlier poll recorded a brew; this poll got a device without a name, fetched the
\* profiles and the schedules, and ended as UpdateFailed
C35_Witness ==
    /\ PollEnded
    /\ poll.outcome = "UpdateFailed"
    /\ ~poll.name
    /\ poll.req = "schedules"
    /\ Len(brew_history) = 1
    /\ store # <<>>

----------------------------------------------------------------------------
(* The coordinator's management actions, the poll's _fetch and the API     *)
(* client they share (SpecCoord).  Each runs its client calls in a worker  *)
(* thread of the executor; the client has no lock, so the steps of the two *)
(* threads interleave at every read and write of the client's caches.  A   *)
(* cached list is <<>> for None, <<"fresh">> for a list, and <<"early">>   *)
(* for a list whose response the action's thread had received before the  *)
(* poll that is running, or the last poll when none is, began.             *)

\* async_create_profile, async_delete_profile, async_create_schedule,
\* async_delete_schedule, async_toggle_schedule
ActionNames ==
    {"create_profile", "delete_profile", "create_schedule", "delete_schedule",
     "toggle_schedule"}

\* the client methods that look the schedule up in self.schedules first
LooksUpSchedule(op) == op \in {"delete_schedule", "toggle_schedule"}

\* the client methods that fetch the device again after their request
RefetchesDevice(op) == op \in {"create_profile", "create_schedule"}

\* how the executor job of an action can end: with a value, with the value False, or
\* with an exception of that class
RemoteResults == {"value", "False", "Exception", "ValueError", "TypeError"}

\* an action that asks for the verbose refresh however the remote call ended
ActionReturn_RefreshAlways(c, result) ==
    [c EXCEPT !.next_refresh_verbose = TRUE, !.refresh_pending = TRUE,
              !.job = [@ EXCEPT !.pc = "done", !.refreshes = 1,
                                !.outcome = CASE result = "value" -> "done"
                                              [] result = "False" -> "ValueError"
                                              [] OTHER -> result]]

\* an action of the coordinator from the end of its executor job on: "if result is
\* False: raise ValueError", "except Exception: ... raise", and after the try the flag
\* and the one async_request_refresh()
ActionReturn(c, result) ==
    IF result = "value"
    THEN [c EXCEPT !.next_refresh_verbose = TRUE, !.refresh_pending = TRUE,
                   !.job = [@ EXCEPT !.pc = "done", !.outcome = "done", !.refreshes = 1]]
    ELSE [c EXCEPT !.job = [@ EXCEPT !.pc = "done", !.refreshes = 0,
                                     !.outcome = IF result = "False" THEN "ValueError"
                                                 ELSE result]]

\* FellowAiden(): the constructor authenticates and fetches the device
NewClient == [profiles |-> <<>>, schedules |-> <<>>]

\* the end of __device after a usable answer
DeviceFetched(api) == [api EXCEPT !.profiles = <<>>, !.schedules = <<>>]

\* the first statement of the profiles and schedules properties: "if self._x is None"
CacheTest(thread, api, list) ==
    [thread EXCEPT !.pc = IF api[list] = <<>> THEN "get" ELSE "read"]

\* what a poll hands to the engine
EnvCoord ==
    [ configs |-> {[totalBrewingCycles |-> 1, totalWaterVolumeL |-> 5000]},
      timings |-> {NoTiming}, profile_lists |-> {<<ProfileBold>>},
      load_outcomes |-> {TRUE}, save_outcomes |-> {TRUE}, baselines |-> {},
      instants |-> {0} ]

EngineAndCalls ==
    <<brew_history, water_usage_history, profile_usage, last_total_brews,
      last_total_water, data_loaded, store, now, last_call, wtrack, seq, poll, tasks>>

\* async_config_entry_first_refresh creates the client
CoordSetup ==
    /\ coordinator.api = <<>>
    /\ coordinator' = [coordinator EXCEPT !.api = <<NewClient>>]
    /\ UNCHANGED EngineAndCalls

\* the first refresh, and the scheduler after it, call _async_update_data: the client
\* is there by then; the call takes the flag down and hands _fetch to the executor.
\* A list of schedules the action's thread holds and has not yet put into the cache
\* was fetched before this poll.
CoordPoll ==
    /\ coordinator.api # <<>>
    /\ coordinator.fetch.pc \in {"idle", "done"}
    /\ coordinator' =
         [coordinator EXCEPT !.fetch = [NoFetch EXCEPT !.pc = "device",
                                          !.verbose = coordinator.next_refresh_verbose],
                             !.next_refresh_verbose = FALSE,
                             !.refresh_pending = FALSE,
                             !.job = [@ EXCEPT !.early = (coordinator.job.pc = "got")]]
    /\ UNCHANGED EngineAndCalls

\* self.api.fetch_device() in the poll's thread
FetchDevice ==
    /\ coordinator.fetch.pc = "device"
    /\ \E answer \in {"ok", "ok_unnamed", "failed"} :
         coordinator' =
           IF answer = "failed"
           THEN [coordinator EXCEPT !.fetch = [@ EXCEPT !.pc = "done",
                                                        !.outcome = "UpdateFailed"]]
           ELSE [coordinator EXCEPT
                   !.api = <<DeviceFetched(@[1])>>,
                   !.fetch = [@ EXCEPT !.pc = "test", !.list = "profiles",
                                       !.named = (answer = "ok")]]
    /\ UNCHANGED EngineAndCalls

\* get_profiles() and get_schedules() of _fetch: the test of the cache
FetchTest ==
    /\ coordinator.fetch.pc = "test"
    /\ coordinator' = [coordinator EXCEPT
                         !.fetch = CacheTest(@, coordinator.api[1], @.list)]
    /\ UNCHANGED EngineAndCalls

\* the GET of the list is answered: the list is put into the cache, or the request
\* raises and the poll ends as UpdateFailed
FetchGet ==
    /\ coordinator.fetch.pc = "get"
    /\ \E ok \in BOOLEAN :
         coordinator' =
           IF ok
           THEN [coordinator EXCEPT
                   !.api = <<[@[1] EXCEPT ![coordinator.fetch.list] = <<"fresh">>]>>,
                   !.fetch = [@ EXCEPT !.pc = "read"]]
           ELSE [coordinator EXCEPT !.fetch = [@ EXCEPT !.pc = "done",
                                                        !.outcome = "UpdateFailed"]]
    /\ UNCHANGED EngineAndCalls

\* "return self._profiles", "return self._schedules": the value the attribute has now
FetchRead ==
    /\ coordinator.fetch.pc = "read"
    /\ LET list == coordinator.fetch.list IN
       coordinator' = [coordinator EXCEPT
                         !.fetch = [@ EXCEPT ![list] = coordinator.api[1][list],
                                             !.list = "schedules",
                                             !.pc = IF list = "profiles" THEN "test"
                                                    ELSE "check"]]
    /\ UNCHANGED EngineAndCalls

\* the end of _fetch and of _async_update_data: UpdateFailed for a device without a
\* name, the history update and the return of the data otherwise.  The engine reads
\* "if profiles:", which a value of None fails as an empty list does.
FetchReturn ==
    /\ coordinator.fetch.pc = "check"
    /\ IF ~coordinator.fetch.named
       THEN /\ coordinator' = [coordinator EXCEPT !.fetch = [@ EXCEPT !.pc = "done",
                                                             !.outcome = "UpdateFailed"]]
            /\ UNCHANGED EngineAndCalls
       ELSE /\ UpdateStep([EnvCoord EXCEPT
                             !.profile_lists = IF coordinator.fetch.profiles = <<>>
                                               THEN {<<>>} ELSE @])
            /\ coordinator' = [coordinator EXCEPT !.loaded = TRUE,
                                                   !.fetch = [@ EXCEPT !.pc = "done",
                                                                       !.outcome = "success"]]
            /\ UNCHANGED <<wtrack, seq, poll, tasks>>

\* a service handler calls an action of the coordinator and the action hands the
\* client's method to the executor.  The handlers find the coordinator of a loaded
\* config entry only, one whose first refresh has returned its data.
CoordAction ==
    /\ coordinator.loaded
    /\ coordinator.job.pc \in {"idle", "done"}
    /\ \E op \in ActionNames :
         coordinator' =
           [coordinator EXCEPT
              !.job = [NoJob EXCEPT !.op = op,
                                    !.pc = IF LooksUpSchedule(op) THEN "test"
                                           ELSE "request"]]
    /\ UNCHANGED EngineAndCalls

\* __is_valid_schedule_id reads self.schedules: the test of the cache
JobTest ==
    /\ coordinator.job.pc = "test"
    /\ coordinator' = [coordinator EXCEPT
                         !.job = CacheTest(@, coordinator.api[1], "schedules")]
    /\ UNCHANGED EngineAndCalls

\* the GET of the schedules is answered in the action's thread: "parsed" holds the
\* list, or the request raises
JobGet ==
    /\ coordinator.job.pc = "get"
    /\ \E ok \in BOOLEAN :
         coordinator' =
           IF ok
           THEN [coordinator EXCEPT !.job = [@ EXCEPT !.pc = "got"]]
           ELSE ActionReturn(coordinator, "Exception")
    /\ UNCHANGED EngineAndCalls

\* "self._schedules = parsed" in the action's thread
JobAssign ==
    /\ coordinator.job.pc = "got"
    /\ coordinator' =
         [coordinator EXCEPT
            !.api = <<[@[1] EXCEPT !.schedules =
                         <<IF coordinator.job.early THEN "early" ELSE "fresh">>]>>,
            !.job = [@ EXCEPT !.pc = "read"]]
    /\ UNCHANGED EngineAndCalls

\* "for schedule in self.schedules": iterating None raises TypeError; a schedule that
\* is not in the list raises Exception
JobRead ==
    /\ coordinator.job.pc = "read"
    /\ \E known \in BOOLEAN :
         coordinator' =
           IF coordinator.api[1].schedules = <<>>
           THEN ActionReturn(coordinator, "TypeError")
           ELSE IF known THEN [coordinator EXCEPT !.job = [@ EXCEPT !.pc = "request"]]
           ELSE ActionReturn(coordinator, "Exception")
    /\ UNCHANGED EngineAndCalls

\* the client's own request: the validation of a new profile or schedule (ValueError),
\* then the POST, DELETE or PATCH
JobRequest ==
    /\ coordinator.job.pc = "request"
    /\ \E answer \in {"ok", "rejected", "invalid"} :
         /\ answer = "invalid" => RefetchesDevice(coordinator.job.op)
         /\ coordinator' =
              CASE answer = "invalid" -> ActionReturn(coordinator, "ValueError")
                [] answer = "rejected" -> ActionReturn(coordinator, "Exception")
                [] OTHER -> IF RefetchesDevice(coordinator.job.op)
                            THEN [coordinator EXCEPT !.job = [@ EXCEPT !.pc = "device"]]
                            ELSE ActionReturn(coordinator, "value")
    /\ UNCHANGED EngineAndCalls

\* self.__device() at the end of create_profile and of create_schedule
JobDevice ==
    /\ coordinator.job.pc = "device"
    /\ \E ok \in BOOLEAN :
         coordinator' =
           IF ok
           THEN ActionReturn([coordinator EXCEPT !.api = <<DeviceFetched(@[1])>>], "value")
           ELSE ActionReturn(coordinator, "Exception")
    /\ UNCHANGED EngineAndCalls

NextCoord ==
    \/ CoordSetup \/ CoordPoll \/ FetchDevice \/ FetchTest \/ FetchGet \/ FetchRead
    \/ FetchReturn \/ CoordAction \/ JobTest \/ JobGet \/ JobAssign \/ JobRead
    \/ JobRequest \/ JobDevice

SpecCoord == Init /\ [][NextCoord]_vars

(* Claims about the actions and the client's caches *)

\* the action's remote call is under way
JobRunning == coordinator.job.pc \in {"test", "get", "got", "read", "request", "device"}

\* C36: however the executor job of an action ends, an exception goes to the caller as
\* it was raised and a result of False as ValueError, with no refresh requested and the
\* verbose flag where it was; a value is followed by the flag and exactly one refresh
\* request, in the step that ends the remote call and not before.
C36_ActionRefreshesOnSuccessOnly ==
    /\ [](JobRunning =>
            /\ coordinator.job.refreshes = 0
            /\ \A result \in RemoteResults :
                 LET c == ActionReturn(coordinator, result) IN
                 IF result = "value"
                 THEN /\ c.job.outcome = "done" /\ c.job.refreshes = 1
                      /\ c.refresh_pending /\ c.next_refresh_verbose
                 ELSE /\ c.job.outcome = (IF result = "False" THEN "ValueError" ELSE result)
                      /\ c.job.refreshes = 0
                      /\ c.refresh_pending = coordinator.refresh_pending
                      /\ c.next_refresh_verbose = coordinator.next_refresh_verbose)
    /\ [][(JobRunning /\ coordinator'.job.pc = "done")
            => IF coordinator'.job.outcome = "done"
               THEN /\ coordinator'.job.refreshes = 1
                    /\ coordinator'.refresh_pending /\ coordinator'.next_refresh_verbose
               ELSE /\ coordinator'.job.outcome \in {"Exception", "ValueError", "TypeError"}
                    /\ coordinator'.job.refreshes = 0
                    /\ coordinator'.refresh_pending = coordinator.refresh_pending
                    /\ coordinator'.next_refresh_verbose = coordinator.next_refresh_verbose]_vars
    /\ [][(JobRunning /\ coordinator'.job.pc # "done")
            => /\ coordinator'.refresh_pending = coordinator.refresh_pending
                  \/ (coordinator.fetch.pc \in {"idle", "done"}
                      /\ coordinator'.fetch.pc = "device")
               /\ coordinator'.job.refreshes = 0]_vars

\* a poll has taken the flag down and no refresh is pending; the schedule creation that
\* was called then was rejected by the server and has ended with that exception
C36_Witness ==
    /\ coordinator.job.op = "create_schedule"
    /\ coordinator.job.pc = "done"
    /\ coordinator.job.outcome = "Exception"
    /\ coordinator.fetch.verbose
    /\ ~coordinator.next_refresh_verbose
    /\ ~coordinator.refresh_pending

\* the poll has returned its data
PollReturned == coordinator.fetch.pc = "done" /\ coordinator.fetch.outcome = "success"

\* C38: every device fetch that succeeds empties both caches of the client, and the
\* profiles and the schedules of a poll's result were fetched after that poll's device
\* fetch: none of them was received before the poll began.
C38_PollListsFetchedAfterDevice ==
    /\ [](PollReturned => /\ coordinator.fetch.profiles # <<"early">>
                          /\ coordinator.fetch.schedules # <<"early">>)
    /\ [][((coordinator.fetch.pc = "device" /\ coordinator'.fetch.pc = "test")
           \/ (coordinator.job.pc = "device" /\ coordinator'.job.outcome = "done"))
             => coordinator'.api = <<NewClient>>]_vars

\* C39: no poll returns a result whose profiles or schedules are None, whatever an
\* action does in its thread meanwhile.
C39_PollListsNeverNone ==
    PollReturned => /\ coordinator.fetch.profiles # <<>>
                    /\ coordinator.fetch.schedules # <<>>
----------------------------------------------------------------------------
(* SpecLoad: the processes of one installation one after the other over one storage,
   whose loads and writes may fail.  The reset service reaches the engine of a loaded
   config entry only, one whose first refresh, and with it the engine's first update,
   has returned. *)

\* the snapshots of these runs: one brew or two, 5000 ml or 5200 ml
LoadConfigs ==
    { [totalBrewingCycles |-> b, totalWaterVolumeL |-> w] : b \in {1, 2}, w \in {5000, 5200} }

EnvLoad ==
    [ configs |-> LoadConfigs, timings |-> {NoTiming}, profile_lists |-> {<<ProfileBold>>},
      load_outcomes |-> BOOLEAN, save_outcomes |-> BOOLEAN, baselines |-> {5000},
      instants |-> Instants ]

LoadUpdate == UpdateStep(EnvLoad) /\ UNCHANGED <<wtrack, seq, poll, tasks, coordinator>>

LoadReset ==
    /\ data_loaded
    /\ ResetStep(EnvLoad)
    /\ UNCHANGED <<wtrack, seq, poll, tasks, coordinator>>

LoadTick == TickStep(EnvLoad) /\ UNCHANGED <<wtrack, seq, poll, tasks, coordinator>>

LoadRestart == RestartStep /\ UNCHANGED <<wtrack, seq, poll, tasks, coordinator>>

NextLoad == LoadUpdate \/ LoadReset \/ LoadTick \/ LoadRestart

SpecLoad == Init /\ [][NextLoad]_vars

\* contents the storage could have instead of the one it has: nothing, a document that is
\* no object, a document of an engine that never counted anything
OtherStores ==
    { <<>>, <<PyList>>,
      << [ brew_history |-> <<>>, water_usage_history |-> <<>>, profile_usage |-> <<>>,
           last_total_brews |-> 0, last_total_water |-> 0, last_updated |-> IsoFormat(0) ] >> }

\* the engines an update of these runs can leave when it starts from engine s with
\* nothing in storage
UpdatesWithoutStorage(s) ==
    { async_update_data(s, <<>>, cc, <<ProfileBold>>, now, TRUE, save_ok).self :
        cc \in LoadConfigs, save_ok \in BOOLEAN }

\* C37: async_update_data loads from storage, before it reads the baselines, exactly when
\* the engine has not completed a load; _data_loaded, once true, stays true for the life
\* of the engine; an update of a loaded engine does not read storage, so what earlier
\* updates and resets left in memory is not replaced by a load.  In every state the
\* update of a loaded engine, for every snapshot and every outcome of a load, leaves the
\* same engine whatever the storage holds.  Over every step: the flag of an engine goes
\* up only; an update ends with the flag up and leaves what the update computes, without
\* any storage to read, from the engine in memory if it was loaded and from the engine
\* the load gave if it was not; a reset leaves what it computes from the engine in memory.
C37_LoadsOnceBeforeBaselines ==
    /\ [](data_loaded =>
            \A st \in OtherStores : \A cc \in LoadConfigs : \A load_ok \in BOOLEAN :
                async_update_data(Self, st, cc, <<ProfileBold>>, now, load_ok, TRUE).self
                  = async_update_data(Self, store, cc, <<ProfileBold>>, now, TRUE, TRUE).self)
    /\ [][data_loaded /\ last_call'.op # "restart" => data_loaded']_vars
    /\ [][last_call'.op = "update" =>
            /\ data_loaded'
            /\ IF data_loaded
               THEN Self' \in UpdatesWithoutStorage(Self)
               ELSE \E load_ok \in BOOLEAN :
                      Self' \in UpdatesWithoutStorage(async_load_history(Self, store, load_ok))]_vars
    /\ [][last_call'.op = "reset" =>
            \E b \in EnvLoad.baselines :
              Self' = async_reset_water_tracking(Self, <<>>, b, TRUE, now).self]_vars

\* a loaded engine whose second brew's save failed, so that storage still holds the
\* baseline 1 and no record, has run one more update and still has the record and the
\* baseline 2
C37_Witness ==
    /\ last_call.op = "update" /\ last_call.prev = "update"
    /\ last_call.new_brews = 0
    /\ data_loaded
    /\ last_total_brews = 2 /\ Len(brew_history) = 1
    /\ store # <<>>
    /\ store[1].last_total_brews = 1 /\ store[1].brew_history = <<>>
============================================================================
